---- MODULE Spec2Model ----
(***************************************************************************)
(* Model of the BIST screening program: the 30-point scoring engine        *)
(* (BISTVolumeAnalyzer.analyze_single_stock and the provider snapshot that *)
(* get_fundamental_data builds) and the batch loops that iterate a symbol  *)
(* universe (analyze_stocks_comprehensive, batch_analyze, run_analysis).   *)
(*                                                                         *)
(* Numbers: every ratio of the program is a float.  The model keeps them   *)
(* as integers in hundredths (Scale), so 8.0 is 800 and a provider         *)
(* fraction 0.15 is 15.  Python None is the record None, a float NaN the   *)
(* record NaN, a non-numeric provider value (yfinance's 'Infinity'         *)
(* strings) the record Str.                                                *)
(***************************************************************************)
EXTENDS Integers, Sequences, FiniteSets, TLC

Scale == 100

None == [t |-> "none", v |-> 0]
NaN == [t |-> "nan", v |-> 0]
Str == [t |-> "str", v |-> 0]
Num(x) == [t |-> "num", v |-> x]
IsNum(x) == x.t = "num"

\* Python truthiness of an optional number: None and 0 are falsy.
Truthy(x) == IsNum(x) /\ x.v # 0

\* Python `a or b` on optional numbers.
PyOr(a, b) == IF Truthy(a) THEN a ELSE b

(***************************************************************************)
(* Scoring thresholds: the defaults of scoring_params.                      *)
(***************************************************************************)
pe_excellent == 8 * Scale
pe_good == 15 * Scale
pb_excellent == 1 * Scale
pb_good == 2 * Scale
roe_excellent == 15 * Scale
roe_good == 10 * Scale
margin_excellent == 10 * Scale
margin_good == 5 * Scale
debt_excellent == 1 * Scale
debt_good == 2 * Scale
rsi_good_min == 40 * Scale
rsi_good_max == 60 * Scale
\* volume_multiplier = 1.2, kept as the fraction VolMulNum / VolMulDen
VolMulNum == 12
VolMulDen == 10
\* bars analyze_single_stock requires of the price history
MinBars == 50
\* bars the 200-bar moving average requires
Sma200Bars == 200

(***************************************************************************)
(* get_fundamental_data: the strict P/E and P/B checks and the `or 0`      *)
(* defaults of the other ratios.                                           *)
(***************************************************************************)
\* pe_ratio = info.get('trailingPE') or info.get('forwardPE')
pe_ratio(trailingPE, forwardPE) == PyOr(trailingPE, forwardPE)

\* if pe_ratio and 0 < pe_ratio < 1000
pe_accepted(pe) == Truthy(pe) /\ 0 < pe.v /\ pe.v < 1000 * Scale

\* if pb_ratio and 0 < pb_ratio < 100
pb_accepted(pb) == Truthy(pb) /\ 0 < pb.v /\ pb.v < 100 * Scale

\* market_data[k] = info.get(k) or 0
OrZero(x) == PyOr(x, Num(0))

\* x * 100 if x is not None and x < 1 else x ; None -> 0   (a percentage)
ToPercent(x) == IF ~IsNum(x) THEN 0 ELSE IF x.v < 1 * Scale THEN x.v * 100 ELSE x.v

(***************************************************************************)
(* The ten fundamental criteria of analyze_single_stock.  Each operator    *)
(* takes what the provider returned and gives the points awarded.          *)
(***************************************************************************)
pe_pts(pe) ==
    IF IsNum(pe) /\ pe.v <= pe_excellent THEN 2
    ELSE IF IsNum(pe) /\ pe.v <= pe_good THEN 1 ELSE 0

pb_pts(pb) ==
    IF IsNum(pb) /\ pb.v < pb_excellent THEN 2
    ELSE IF IsNum(pb) /\ pb.v <= pb_good THEN 1 ELSE 0

\* ev_ebitda = info.get('enterpriseToEbitda'), else enterpriseValue / ebitda
ev_ebitda_of(enterpriseToEbitda, ev, ebitda) ==
    IF enterpriseToEbitda.t = "str" THEN Str
    ELSE IF Truthy(enterpriseToEbitda) THEN enterpriseToEbitda
    ELSE IF Truthy(ev) /\ Truthy(ebitda) THEN Num((ev.v * Scale) \div ebitda.v)
    ELSE IF IsNum(enterpriseToEbitda) THEN enterpriseToEbitda
    ELSE None

ev_ebitda_pts(e) ==
    IF IsNum(e) /\ e.v < 6 * Scale THEN 2
    ELSE IF IsNum(e) /\ e.v <= 8 * Scale THEN 1 ELSE 0

npm_pts(profitMargins) ==
    LET npm_pct == ToPercent(OrZero(profitMargins))
    IN IF npm_pct >= margin_excellent THEN 2
       ELSE IF npm_pct >= margin_good THEN 1 ELSE 0

sg_pts(rev_growth_3y) ==
    LET sg == IF IsNum(rev_growth_3y) THEN rev_growth_3y.v ELSE 0
    IN IF sg >= 10 * Scale THEN 2 ELSE IF sg >= 5 * Scale THEN 1 ELSE 0

ng_pts(ni_growth_3y) ==
    LET ng == IF IsNum(ni_growth_3y) THEN ni_growth_3y.v ELSE 0
    IN IF ng >= 10 * Scale THEN 2 ELSE IF ng > 0 THEN 1 ELSE 0

roe_pts(returnOnEquity) ==
    LET roe_pct == ToPercent(OrZero(returnOnEquity))
    IN IF roe_pct >= roe_excellent THEN 2
       ELSE IF roe_pct >= roe_good THEN 1 ELSE 0

de_pts(debtToEquity) ==
    LET de == OrZero(debtToEquity)
    IN IF IsNum(de) /\ de.v < debt_excellent THEN 2
       ELSE IF IsNum(de) /\ de.v <= debt_good THEN 1 ELSE 0

\* current_ratio = ca / cl when both are present and non-zero, else None -> 0
current_ratio_of(ca, cl) ==
    IF Truthy(ca) /\ Truthy(cl) THEN Num((ca.v * Scale) \div cl.v) ELSE None

cr_pts(current_ratio) ==
    LET cr == IF IsNum(current_ratio) THEN current_ratio.v ELSE 0
    IN IF cr >= 150 THEN 2 ELSE IF cr >= 1 * Scale THEN 1 ELSE 0

\* variant: the two cash-flow conditions award points independently
ocf_pts_additive(ocf_last, ni) ==
    (IF IsNum(ocf_last) /\ ocf_last.v > 0 THEN 1 ELSE 0)
    + (IF Truthy(ni) /\ ni.v > 0 THEN 2 ELSE 0)

ocf_pts(ocf_last, ni) ==
    IF IsNum(ocf_last) /\ ocf_last.v > 0 /\ Truthy(ni) /\ ni.v > 0 THEN 2
    ELSE IF IsNum(ocf_last) /\ ocf_last.v > 0 THEN 1 ELSE 0

\* Fundamental cap at 20
CapFundamental(p) == IF p > 20 THEN 20 ELSE p

(***************************************************************************)
(* The five technical criteria.                                            *)
(***************************************************************************)
\* sma200 is None below 200 bars; otherwise 2 points when price > sma200
p200_pts(n, price, sma200) ==
    IF n >= Sma200Bars /\ IsNum(sma200)
    THEN (IF price > sma200.v THEN 2 ELSE 0) ELSE 0

p50_pts(price, sma50) ==
    IF IsNum(sma50) THEN (IF price > sma50.v THEN 2 ELSE 0) ELSE 0

\* comparisons with NaN are false
rsi_pts(rsi) ==
    IF IsNum(rsi) /\ rsi.v >= rsi_good_max THEN 2
    ELSE IF IsNum(rsi) /\ rsi_good_min <= rsi.v /\ rsi.v <= rsi_good_max THEN 1 ELSE 0

macd_pts(macd_line, macd_signal) ==
    IF macd_line > macd_signal THEN 2 ELSE 0

vol_pts(volume, vol20) ==
    IF IsNum(vol20)
    THEN (IF volume * VolMulDen > vol20.v * VolMulNum THEN 2 ELSE 0) ELSE 0

(***************************************************************************)
(* Recommendation mapping.                                                 *)
(***************************************************************************)
\* variant: the top cut-point compared strictly
Recommendation_strict(total) ==
    IF total > 20 THEN "Guclu Al"
    ELSE IF total >= 16 THEN "Al"
    ELSE IF total >= 12 THEN "Tut"
    ELSE IF total >= 8 THEN "Sat"
    ELSE "Guclu Sat"

Recommendation(total) ==
    IF total >= 20 THEN "Guclu Al"
    ELSE IF total >= 16 THEN "Al"
    ELSE IF total >= 12 THEN "Tut"
    ELSE IF total >= 8 THEN "Sat"
    ELSE "Guclu Sat"

(***************************************************************************)
(* Provider responses one analysis can see.                                *)
(***************************************************************************)
FetchOutcomes == {"error", "empty", "ok"}
TrailingPEVals == {None, Num(800), Num(1500), Num(2000), Num(1000 * Scale)}
ForwardPEVals == {None, Num(1200)}
PriceToBookVals == {None, Num(50), Num(100), Num(200), Num(300), Num(100 * Scale)}
EnterpriseToEbitdaVals == {None, Num(0), Num(400), Num(600), Num(800), Num(900), Str}
EnterpriseValueVals == {None, Num(1400)}
EbitdaVals == {None, Num(0), Num(200)}
ProfitMarginsVals == {None, Num(0), Num(3), Num(5), Num(10), Num(150)}
GrowthVals == {None, Num(-500), Num(0), Num(100), Num(500), Num(1000)}
ReturnOnEquityVals == {None, Num(0), Num(5), Num(10), Num(15), Num(120)}
DebtToEquityVals == {None, Num(0), Num(50), Num(100), Num(200), Num(300)}
CurrentAssetsVals == {None, Num(100), Num(150), Num(300)}
CurrentLiabilitiesVals == {None, Num(0), Num(100), Num(200)}
CashFlowVals == {None, Num(-1), Num(0), Num(1)}
NBarsVals == {30, 50, 199, 200}
PriceVals == {10, 11}
SmaVals == {Num(9), Num(10), Num(11)}
RsiVals == {NaN, Num(30 * Scale), Num(40 * Scale), Num(50 * Scale), Num(60 * Scale), Num(70 * Scale)}
MacdVals == {-1, 0, 1}
VolumeVals == {10, 12, 13}

NoInfo == [fetch |-> "none", raises |-> FALSE, trailingPE |-> None,
           forwardPE |-> None, priceToBook |-> None]

(***************************************************************************)
(* What it means for a provider value to meet a criterion's bound.  The    *)
(* provider reports margins and returns as fractions (0.15 is 15%).        *)
(***************************************************************************)
Percent(x) == x.v * 100

MeetsLow(x, bound, strict) ==
    IsNum(x) /\ (IF strict THEN x.v < bound ELSE x.v <= bound)

MeetsHigh(x, bound) == IsNum(x) /\ x.v >= bound

MeetsHighPercent(x, bound) == IsNum(x) /\ Percent(x) >= bound

VARIABLES pc, info, fundamentals, len_data, current_price, ni_last,
          fundamental_points, technical_points, total_points, recommendation,
          entry, n_fundamental, n_technical, all_excellent, none_met,
          result, diagnostic

\* state of one batch call (analyze_stocks_comprehensive, batch_analyze, run_analysis)
VARIABLES mode, symbols, min_total_points, params, bpc, idx, results, log,
          fetched, fetch_failed, evaluated, cancel_requested, provider_calls

\* state of one symbol of a scan (run_analysis)
VARIABLES scan_pc, scan_series, scan_kw, clock, scan_analysis, scan_again,
          scan_match

scanVars == <<scan_pc, scan_series, scan_kw, clock, scan_analysis, scan_again,
              scan_match>>

\* one call of a helper of the analysis: its arguments and what it returned
VARIABLES fn_pc, fn_in, fn_out

fnVars == <<fn_pc, fn_in, fn_out>>

batchVars == <<mode, symbols, min_total_points, params, bpc, idx, results, log,
               fetched, fetch_failed, evaluated, cancel_requested, provider_calls>>

scoreVars == <<pc, info, fundamentals, len_data, current_price, ni_last,
               fundamental_points, technical_points, total_points,
               recommendation, entry, n_fundamental, n_technical,
               all_excellent, none_met, result, diagnostic>>

NoEntry == [crit |-> "", omitted |-> FALSE, pts |-> 0]
NoFundamentals == [pe_ratio |-> None, pb_ratio |-> None]

ScoreInit ==
    /\ pc = "gfd_fetch"
    /\ info = NoInfo
    /\ fundamentals = NoFundamentals
    /\ len_data = 0
    /\ current_price = 0
    /\ ni_last = None
    /\ fundamental_points = 0
    /\ technical_points = 0
    /\ total_points = 0
    /\ recommendation = ""
    /\ entry = NoEntry
    /\ n_fundamental = 0
    /\ n_technical = 0
    /\ all_excellent = TRUE
    /\ none_met = TRUE
    /\ result = "pending"
    /\ diagnostic = ""

vars == <<scoreVars, batchVars, scanVars, fnVars>>

\* the keyword arguments of analyze_stock_volume at their defaults, followed by
\* those apply_scan_criteria reads.  In tenths: sideways_threshold,
\* support_tolerance, volume_multiplier_triple, convergence_threshold,
\* min_divergence_strength, resistance_breakout_percent,
\* volume_breakout_multiplier, bb_std_dev, upper_band_breakout_percent,
\* volume_squeeze_multiplier, fib_retracement_min, fib_retracement_max,
\* fib_support_tolerance, harmonic_tolerance, fib_volume_multiplier,
\* min_volume_multiplier, vol_multiplier_vwap.
ScanDefaults ==
    [scan_type |-> "3_period_increase",
     sma_period |-> 10, ema_short |-> 50, ema_long |-> 200, volume_period |-> 20,
     macd_fast |-> 12, macd_slow |-> 26, macd_signal |-> 9,
     sideways_days |-> 5, sideways_threshold |-> 20,
     vwap_period |-> 20, support_tolerance |-> 10, bottom_lookback |-> 10,
     volume_avg_period |-> 20, volume_multiplier_triple |-> 20,
     rsi_period |-> 14, rsi_min |-> 60, rsi_max |-> 70,
     obv_period |-> 20, obv_threshold |-> 95,
     triangle_period |-> 20, convergence_threshold |-> 30,
     volume_decline_period |-> 10, volume_decline_threshold |-> 20,
     breakout_volume_increase |-> 40, breakout_direction |-> "Yukari",
     divergence_period |-> 20, min_divergence_strength |-> 6,
     resistance_period |-> 10, resistance_breakout_percent |-> 15,
     volume_breakout_multiplier |-> 15, rsi_oversold_threshold |-> 30,
     bb_period |-> 20, bb_std_dev |-> 20, squeeze_period |-> 6,
     squeeze_percentile |-> 10, upper_band_breakout_percent |-> 10,
     volume_squeeze_multiplier |-> 15, consecutive_days |-> 2,
     fib_lookback_period |-> 50, fib_retracement_min |-> 382,
     fib_retracement_max |-> 500, fib_support_tolerance |-> 20,
     harmonic_pattern_type |-> "Otomatik", harmonic_tolerance |-> 50,
     fib_volume_multiplier |-> 13, periods_to_check |-> 3,
     min_volume_multiplier |-> 15, volume_threshold |-> 50,
     volume_confirmation |-> TRUE, vol_confirm_vwap |-> TRUE,
     vol_multiplier_vwap |-> 15]

\* return None of analyze_stock_volume
NoAnalysis(msgs, failed) ==
    [kind |-> "None", msgs |-> msgs, fetch_failed |-> failed,
     current_volume |-> 0, ratio_num |-> 0, ratio_den |-> 1]

\* no batch call is in progress
BatchIdle ==
    /\ mode = "none"
    /\ symbols = << >>
    /\ min_total_points = 0
    /\ params = ScanDefaults
    /\ bpc = "idle"
    /\ idx = 1
    /\ results = << >>
    /\ log = << >>
    /\ fetched = << >>
    /\ fetch_failed = {}
    /\ evaluated = << >>
    /\ cancel_requested = FALSE
    /\ provider_calls = << >>

\* analyze_single_stock returns None (or raises) before any total is computed
ReturnEarly(res, msg) ==
    /\ pc' = "done"
    /\ result' = res
    /\ diagnostic' = msg
    /\ UNCHANGED <<info, fundamentals, len_data, current_price, ni_last,
                   fundamental_points, technical_points, total_points,
                   recommendation, entry, n_fundamental, n_technical,
                   all_excellent, none_met, batchVars, scanVars, fnVars>>

\* get_fundamental_data, first half: the price history and ticker.info reads
GfdFetch ==
    /\ pc = "gfd_fetch"
    /\ \/ \E f \in {"error", "empty"} :
            info' = [NoInfo EXCEPT !.fetch = f]
       \/ info' = [NoInfo EXCEPT !.fetch = "ok", !.raises = TRUE]
       \/ \E tpe \in TrailingPEVals, fpe \in ForwardPEVals, ptb \in PriceToBookVals :
            info' = [fetch |-> "ok", raises |-> FALSE, trailingPE |-> tpe,
                     forwardPE |-> fpe, priceToBook |-> ptb]
    /\ pc' = "gfd_check"
    /\ UNCHANGED <<fundamentals, len_data, current_price, ni_last,
                   fundamental_points, technical_points, total_points,
                   recommendation, entry, n_fundamental, n_technical,
                   all_excellent, none_met, result, diagnostic, batchVars, scanVars, fnVars>>

\* get_fundamental_data, second half: strict checks, market_data or None
GfdCheck ==
    /\ pc = "gfd_check"
    /\ LET pe == pe_ratio(info.trailingPE, info.forwardPE)
           pb == info.priceToBook
       IN IF info.fetch # "ok" THEN ReturnEarly("None", "No historical data available")
          ELSE IF info.raises THEN ReturnEarly("None", "Yahoo Finance hatasi")
          ELSE IF ~pe_accepted(pe) THEN ReturnEarly("None", "P/E bulunamadi")
          ELSE IF ~pb_accepted(pb) THEN ReturnEarly("None", "P/B bulunamadi")
          ELSE /\ fundamentals' = [pe_ratio |-> pe, pb_ratio |-> pb]
               /\ pc' = "get_stock_data"
               /\ info' = NoInfo
               /\ UNCHANGED <<len_data, current_price, ni_last,
                              fundamental_points, technical_points, total_points,
                              recommendation, entry, n_fundamental, n_technical,
                              all_excellent, none_met, result, diagnostic,
                              batchVars, scanVars, fnVars>>

\* the second price-history fetch of analyze_single_stock and its length check
GetStockData ==
    /\ pc = "get_stock_data"
    /\ \/ \E f \in {"error", "empty"} : ReturnEarly("None", "Yetersiz fiyat verisi")
       \/ \E n \in NBarsVals, p \in PriceVals :
            IF n < MinBars THEN ReturnEarly("None", "Yetersiz fiyat verisi")
            ELSE /\ len_data' = n
                 /\ current_price' = p
                 /\ pc' = "score_pe"
                 /\ UNCHANGED <<info, fundamentals, ni_last,
                                fundamental_points, technical_points, total_points,
                                recommendation, entry, n_fundamental, n_technical,
                                all_excellent, none_met, result, diagnostic,
                                batchVars, scanVars, fnVars>>

\* one fundamental criterion: add its points, append its breakdown entry
FundStep(from, to, crit, omitted, exc, good, pts) ==
    /\ pc = from
    /\ pc' = to
    /\ fundamental_points' = fundamental_points + pts
    /\ entry' = [crit |-> crit, omitted |-> omitted, pts |-> pts]
    /\ n_fundamental' = n_fundamental + 1
    /\ all_excellent' = (all_excellent /\ exc)
    /\ none_met' = (none_met /\ ~exc /\ ~good)
    /\ UNCHANGED <<info, fundamentals, len_data, current_price,
                   technical_points, total_points, recommendation,
                   n_technical, result, diagnostic, batchVars, scanVars, fnVars>>

ScorePE ==
    LET pe == fundamentals.pe_ratio
    IN /\ FundStep("score_pe", "score_pb", "F/K Orani", FALSE,
                   MeetsLow(pe, pe_excellent, FALSE), MeetsLow(pe, pe_good, FALSE),
                   pe_pts(pe))
       /\ UNCHANGED ni_last

ScorePB ==
    LET pb == fundamentals.pb_ratio
    IN /\ FundStep("score_pb", "score_ev_ebitda", "PD/DD Orani", FALSE,
                   MeetsLow(pb, pb_excellent, TRUE), MeetsLow(pb, pb_good, FALSE),
                   pb_pts(pb))
       /\ UNCHANGED ni_last

ScoreEvEbitda ==
    \E e2e \in EnterpriseToEbitdaVals, ev \in EnterpriseValueVals, ebitda \in EbitdaVals :
        LET e == ev_ebitda_of(e2e, ev, ebitda)
        IN IF e.t = "str"
           THEN /\ pc = "score_ev_ebitda"
                /\ ReturnEarly("raise", "TypeError")
           ELSE /\ FundStep("score_ev_ebitda", "score_npm", "FD/FAVOK", e = None,
                            MeetsLow(e, 6 * Scale, TRUE), MeetsLow(e, 8 * Scale, FALSE),
                            ev_ebitda_pts(e))
                /\ UNCHANGED ni_last

ScoreNPM ==
    \E pm \in ProfitMarginsVals :
        /\ FundStep("score_npm", "score_sg", "Net Kar Marji (%)", pm = None,
                    MeetsHighPercent(pm, margin_excellent),
                    MeetsHighPercent(pm, margin_good), npm_pts(pm))
        /\ UNCHANGED ni_last

ScoreSG ==
    \E g \in GrowthVals :
        /\ FundStep("score_sg", "score_ng", "Satis Buyumesi 3Y (%)", g = None,
                    MeetsHigh(g, 10 * Scale), MeetsHigh(g, 5 * Scale), sg_pts(g))
        /\ UNCHANGED ni_last

\* ni_vals feeds both the growth criterion and the cash-flow criterion
ScoreNG ==
    \E g \in GrowthVals, ni \in CashFlowVals :
        /\ IsNum(g) => IsNum(ni)
        /\ FundStep("score_ng", "score_roe", "Net Kar Buyumesi 3Y (%)", g = None,
                    MeetsHigh(g, 10 * Scale), IsNum(g) /\ g.v > 0, ng_pts(g))
        /\ ni_last' = ni

ScoreROE ==
    \E roe \in ReturnOnEquityVals :
        /\ FundStep("score_roe", "score_de", "ROE (%)", roe = None,
                    MeetsHighPercent(roe, roe_excellent),
                    MeetsHighPercent(roe, roe_good), roe_pts(roe))
        /\ UNCHANGED ni_last

ScoreDE ==
    \E de \in DebtToEquityVals :
        /\ FundStep("score_de", "score_cr", "Borc/Ozkaynak", de = None,
                    MeetsLow(de, debt_excellent, TRUE), MeetsLow(de, debt_good, FALSE),
                    de_pts(de))
        /\ UNCHANGED ni_last

ScoreCR ==
    \E ca \in CurrentAssetsVals, cl \in CurrentLiabilitiesVals :
        LET cr == current_ratio_of(ca, cl)
        IN /\ FundStep("score_cr", "score_ocf", "Cari Oran", ca = None \/ cl = None,
                       MeetsHigh(cr, 150), MeetsHigh(cr, 1 * Scale), cr_pts(cr))
           /\ UNCHANGED ni_last

ScoreOCF ==
    \E ocf \in CashFlowVals :
        /\ FundStep("score_ocf", "cap", "Faaliyet Nakit Akimi", ocf = None,
                    IsNum(ocf) /\ ocf.v > 0 /\ IsNum(ni_last) /\ ni_last.v > 0,
                    IsNum(ocf) /\ ocf.v > 0, ocf_pts(ocf, ni_last))
        /\ UNCHANGED ni_last

CapStep ==
    /\ pc = "cap"
    /\ fundamental_points' = CapFundamental(fundamental_points)
    /\ pc' = "tech_p200"
    /\ UNCHANGED <<info, fundamentals, len_data, current_price, ni_last,
                   technical_points, total_points, recommendation, entry,
                   n_fundamental, n_technical, all_excellent, none_met,
                   result, diagnostic, batchVars, scanVars, fnVars>>

\* one technical criterion
TechStep(from, to, crit, omitted, exc, good, pts) ==
    /\ pc = from
    /\ pc' = to
    /\ technical_points' = technical_points + pts
    /\ entry' = [crit |-> crit, omitted |-> omitted, pts |-> pts]
    /\ n_technical' = n_technical + 1
    /\ all_excellent' = (all_excellent /\ exc)
    /\ none_met' = (none_met /\ ~exc /\ ~good)
    /\ UNCHANGED <<info, fundamentals, len_data, current_price, ni_last,
                   fundamental_points, total_points, recommendation,
                   n_fundamental, result, diagnostic, batchVars, scanVars, fnVars>>

TechP200 ==
    \E sma200 \in SmaVals :
        TechStep("tech_p200", "tech_p50", "Fiyat > SMA200", len_data < Sma200Bars,
                 len_data >= Sma200Bars /\ current_price > sma200.v, FALSE,
                 p200_pts(len_data, current_price, sma200))

TechP50 ==
    \E sma50 \in SmaVals :
        TechStep("tech_p50", "tech_rsi", "Fiyat > SMA50", FALSE,
                 current_price > sma50.v, FALSE, p50_pts(current_price, sma50))

TechRSI ==
    \E rsi \in RsiVals :
        TechStep("tech_rsi", "tech_macd", "RSI(14)", ~IsNum(rsi),
                 MeetsHigh(rsi, rsi_good_max), MeetsHigh(rsi, rsi_good_min),
                 rsi_pts(rsi))

TechMACD ==
    \E macd_line \in MacdVals, macd_signal \in MacdVals :
        TechStep("tech_macd", "tech_vol", "MACD", FALSE,
                 macd_line > macd_signal, FALSE, macd_pts(macd_line, macd_signal))

TechVol ==
    \E volume \in VolumeVals, vol20 \in {Num(10)} :
        TechStep("tech_vol", "total", "Hacim > 20G Ort.", FALSE,
                 volume * VolMulDen > vol20.v * VolMulNum, FALSE, vol_pts(volume, vol20))

\* total, recommendation mapping and the returned record
Finish ==
    /\ pc = "total"
    /\ total_points' = fundamental_points + technical_points
    /\ recommendation' = Recommendation(fundamental_points + technical_points)
    /\ result' = "record"
    /\ pc' = "done"
    /\ UNCHANGED <<info, fundamentals, len_data, current_price, ni_last,
                   fundamental_points, technical_points, entry,
                   n_fundamental, n_technical, all_excellent, none_met,
                   diagnostic, batchVars, scanVars, fnVars>>

ScoreNext ==
    \/ GfdFetch \/ GfdCheck \/ GetStockData
    \/ ScorePE \/ ScorePB \/ ScoreEvEbitda \/ ScoreNPM \/ ScoreSG \/ ScoreNG
    \/ ScoreROE \/ ScoreDE \/ ScoreCR \/ ScoreOCF \/ CapStep
    \/ TechP200 \/ TechP50 \/ TechRSI \/ TechMACD \/ TechVol \/ Finish

\* no scan is in progress
ScanIdle ==
    /\ scan_pc = "idle"
    /\ scan_series = [fetch |-> "empty", bars |-> << >>]
    /\ scan_kw = ScanDefaults
    /\ clock = 0
    /\ scan_analysis = NoAnalysis(<< >>, FALSE)
    /\ scan_again = NoAnalysis(<< >>, FALSE)
    /\ scan_match = FALSE

\* no helper call is in progress
NoInput == [bars |-> << >>, prices |-> << >>, points |-> << >>, tolerance |-> 0,
            threshold |-> 0, pattern_type |-> "", lookback_period |-> 0,
            rows |-> << >>]
NoOutput == [kind |-> "none"]

FnIdle ==
    /\ fn_pc = "idle"
    /\ fn_in = NoInput
    /\ fn_out = NoOutput

ScoreStart == ScoreInit /\ BatchIdle /\ ScanIdle /\ FnIdle

SpecScore == ScoreStart /\ [][ScoreNext]_vars

(***************************************************************************)
(* analyze_single_stock as a function of everything the providers return   *)
(* for one symbol: the outcome, the score and the diagnostics printed.     *)
(***************************************************************************)
MsgFetchError == "Error fetching data"
MsgNoData == "No data found"
MsgNoHistory == "No historical data available"
MsgYahoo == "Yahoo Finance hatasi"
MsgNoPE == "P/E bulunamadi"
MsgNoPB == "P/B bulunamadi"
MsgShort == "Yetersiz fiyat verisi"
MsgScanError == "Comprehensive scan error"

\* what get_stock_data prints for a fetch outcome (it returns None unless "ok")
get_stock_data_log(fetch) ==
    IF fetch = "error" THEN <<MsgFetchError>>
    ELSE IF fetch = "empty" THEN <<MsgNoData>>
    ELSE << >>

\* the provider requests one evaluation makes, in order
CallsHistory == <<"history">>
CallsFundamental == <<"history", "info">>
CallsShort == <<"history", "info", "history">>
CallsScored == <<"history", "info", "history", "financials", "info">>

NoScore(kind, msgs, n_fetch, failed, calls) ==
    [kind |-> kind, msgs |-> msgs, n_fetch |-> n_fetch, fetch_failed |-> failed,
     calls |-> calls,
     fundamental_points |-> 0, technical_points |-> 0, total_points |-> 0,
     recommendation |-> ""]

\* get_fundamental_data: None, or market_data with the strictly checked ratios
\* (market_cap_est in millions of TL)
get_fundamental_data(s) ==
    LET NoData(msgs, failed) ==
            [kind |-> "None", msgs |-> msgs, fetch_failed |-> failed,
             calls |-> IF failed THEN CallsHistory ELSE CallsFundamental,
             pe_ratio |-> None, pb_ratio |-> None, market_cap_est |-> 0]
    IN IF s.fetch # "ok"
       THEN NoData(get_stock_data_log(s.fetch) \o <<MsgNoHistory>>, TRUE)
       ELSE IF s.raises THEN NoData(<<MsgYahoo>>, FALSE)
       ELSE IF ~pe_accepted(pe_ratio(s.trailingPE, s.forwardPE))
       THEN NoData(<<MsgNoPE>>, FALSE)
       ELSE IF ~pb_accepted(s.priceToBook) THEN NoData(<<MsgNoPB>>, FALSE)
       ELSE [kind |-> "record", msgs |-> << >>, fetch_failed |-> FALSE,
             calls |-> CallsFundamental,
             pe_ratio |-> pe_ratio(s.trailingPE, s.forwardPE),
             pb_ratio |-> s.priceToBook,
             market_cap_est |-> IF Truthy(s.marketCap) /\ s.marketCap.v > 0
                                THEN s.marketCap.v ELSE s.price]

fundamental_points_of(s) ==
    CapFundamental(
        pe_pts(pe_ratio(s.trailingPE, s.forwardPE))
        + pb_pts(s.priceToBook)
        + ev_ebitda_pts(ev_ebitda_of(s.enterpriseToEbitda, s.enterpriseValue, s.ebitda))
        + npm_pts(s.profitMargins)
        + sg_pts(s.rev_growth_3y)
        + ng_pts(s.ni_growth_3y)
        + roe_pts(s.returnOnEquity)
        + de_pts(s.debtToEquity)
        + cr_pts(current_ratio_of(s.current_assets, s.current_liabilities))
        + ocf_pts(s.ocf_last, s.ni_last))

technical_points_of(s) ==
    p200_pts(s.nbars, s.price, s.sma200)
    + p50_pts(s.price, s.sma50)
    + rsi_pts(s.rsi)
    + macd_pts(s.macd_line, s.macd_signal)
    + vol_pts(s.volume, s.vol20)

analyze_single_stock(s) ==
    IF get_fundamental_data(s).kind = "None"
    THEN NoScore("None", get_fundamental_data(s).msgs, 1,
                 get_fundamental_data(s).fetch_failed, get_fundamental_data(s).calls)
    ELSE IF s.fetch2 # "ok"
    THEN NoScore("None", get_stock_data_log(s.fetch2) \o <<MsgShort>>, 2, TRUE,
                 CallsShort)
    ELSE IF s.nbars < MinBars THEN NoScore("None", <<MsgShort>>, 2, FALSE, CallsShort)
    ELSE IF ev_ebitda_of(s.enterpriseToEbitda, s.enterpriseValue, s.ebitda).t = "str"
    THEN NoScore("raise", << >>, 2, FALSE, CallsScored)
    ELSE [kind |-> "record", msgs |-> << >>, n_fetch |-> 2, fetch_failed |-> FALSE,
          calls |-> CallsScored,
          fundamental_points |-> fundamental_points_of(s),
          technical_points |-> technical_points_of(s),
          total_points |-> fundamental_points_of(s) + technical_points_of(s),
          recommendation |->
              Recommendation(fundamental_points_of(s) + technical_points_of(s))]

\* provider responses used by the batch runs
ExcellentSnapshot ==
    [fetch |-> "ok", raises |-> FALSE, trailingPE |-> Num(800), forwardPE |-> None,
     priceToBook |-> Num(50), fetch2 |-> "ok", nbars |-> 200, price |-> 11,
     enterpriseToEbitda |-> Num(400), enterpriseValue |-> None, ebitda |-> None,
     profitMargins |-> Num(10), rev_growth_3y |-> Num(1000),
     ni_growth_3y |-> Num(1000), ni_last |-> Num(1), returnOnEquity |-> Num(15),
     debtToEquity |-> Num(50), current_assets |-> Num(300),
     current_liabilities |-> Num(200), ocf_last |-> Num(1), sma200 |-> Num(10),
     sma50 |-> Num(10), rsi |-> Num(60 * Scale), macd_line |-> 1,
     macd_signal |-> 0, volume |-> 13, vol20 |-> Num(10), marketCap |-> Num(500)]

PoorSnapshot ==
    [ExcellentSnapshot EXCEPT
        !.trailingPE = Num(2000), !.priceToBook = Num(300),
        !.enterpriseToEbitda = Num(900), !.profitMargins = Num(0),
        !.rev_growth_3y = None, !.ni_growth_3y = None, !.ni_last = None,
        !.returnOnEquity = Num(0), !.debtToEquity = Num(300),
        !.current_assets = None, !.ocf_last = None, !.price = 9,
        !.rsi = Num(30 * Scale), !.macd_line = -1, !.volume = 10]

Snapshots ==
    { ExcellentSnapshot,
      PoorSnapshot,
      [ExcellentSnapshot EXCEPT !.returnOnEquity = Num(0), !.debtToEquity = Num(300)],
      [ExcellentSnapshot EXCEPT !.macd_line = -1, !.volume = 10],
      [ExcellentSnapshot EXCEPT !.trailingPE = None, !.forwardPE = Num(1200)],
      [ExcellentSnapshot EXCEPT !.marketCap = None],
      [ExcellentSnapshot EXCEPT !.fetch = "error"],
      [ExcellentSnapshot EXCEPT !.fetch = "empty"],
      [ExcellentSnapshot EXCEPT !.raises = TRUE],
      [ExcellentSnapshot EXCEPT !.trailingPE = None],
      [ExcellentSnapshot EXCEPT !.priceToBook = None],
      [ExcellentSnapshot EXCEPT !.fetch2 = "error"],
      [ExcellentSnapshot EXCEPT !.nbars = 30],
      [ExcellentSnapshot EXCEPT !.enterpriseToEbitda = Str] }

(***************************************************************************)
(* analyze_stock_volume and apply_scan_criteria.                           *)
(*                                                                         *)
(* A Series is what get_stock_data returns: fetch = "ok" and the cleaned   *)
(* bars, oldest first, or a failed fetch.  Prices and volumes are          *)
(* integers.  A parameter the code reads as a float with one decimal       *)
(* (a multiplier such as 1.5, a percentage such as 2.0) is kept as ten     *)
(* times its value; the fields concerned are listed at ScanDefaults.       *)
(* A quotient the code compares with a threshold is kept as the fraction   *)
(* n / d and compared by cross-multiplication; a quotient the code feeds   *)
(* into further arithmetic (the exponential averages, the standard         *)
(* deviation) is kept in units of 1 / Scale, rounded down.                 *)
(***************************************************************************)
Tenth == 10

Bar(o, h, l, c, v) == [open |-> o, high |-> h, low |-> l, close |-> c, volume |-> v]

\* data[name]
Column(data, name) == [i \in 1..Len(data) |-> data[i][name]]

Max(a, b) == IF a >= b THEN a ELSE b
Min(a, b) == IF a <= b THEN a ELSE b
Abs(x) == IF x < 0 THEN -x ELSE x

\* numpy.float64: n / d, or NaN (0/0, or an undefined operand), or +-inf (x/0)
Ratio(n, d) ==
    IF d = 0 THEN (IF n = 0 THEN [t |-> "nan", n |-> 0, d |-> 1]
                   ELSE [t |-> "inf", n |-> (IF n > 0 THEN 1 ELSE -1), d |-> 1])
    ELSE IF d < 0 THEN [t |-> "num", n |-> -n, d |-> -d]
    ELSE [t |-> "num", n |-> n, d |-> d]

RatioNaN == Ratio(0, 0)

IsNaN(x) == x.t = "nan"

\* x >= y and x > y on float64: every comparison with NaN is False
RatioGE(x, y) ==
    /\ ~IsNaN(x) /\ ~IsNaN(y)
    /\ IF x.t = "inf" THEN x.n > 0 \/ (y.t = "inf" /\ y.n < 0)
       ELSE IF y.t = "inf" THEN y.n < 0
       ELSE x.n * y.d >= y.n * x.d

RatioGT(x, y) == ~IsNaN(x) /\ ~IsNaN(y) /\ ~RatioGE(y, x)

\* x * k for a positive integer k
Times(x, k) == IF x.t = "num" THEN Ratio(x.n * k, x.d) ELSE x

RECURSIVE SumSeq(_)
SumSeq(q) == IF q = << >> THEN 0 ELSE Head(q) + SumSeq(Tail(q))

\* series.tail(n)
TailN(q, n) == IF Len(q) <= n THEN q ELSE SubSeq(q, Len(q) - n + 1, Len(q))

\* series.head(n)
HeadN(q, n) == IF Len(q) <= n THEN q ELSE SubSeq(q, 1, n)

\* series.max() and series.min() of a non-empty column
MaxSeq(q) == CHOOSE m \in {q[i] : i \in 1..Len(q)} : \A i \in 1..Len(q) : q[i] <= m
MinSeq(q) == CHOOSE m \in {q[i] : i \in 1..Len(q)} : \A i \in 1..Len(q) : q[i] >= m

\* series.mean(): NaN for an empty series
Mean(q) == Ratio(SumSeq(q), Len(q))

\* series.rolling(window=w).mean().iloc[-1]: NaN before w values exist
RollingMeanLast(q, w) == IF Len(q) < w \/ w < 1 THEN RatioNaN ELSE Mean(TailN(q, w))

\* resolution of the weights of the exponential averages
WScale == 1000

\* series.ewm(span=span).mean() (adjust=True): the average of the values so
\* far with weights (1 - alpha)^i, alpha = 2 / (span + 1), computed the way
\* pandas does, one value at a time; q is in units of 1 / Scale
RECURSIVE EwmUpTo(_, _, _, _)
\* st.out holds the averages of the first Len(st.out) values and st.w the sum
\* of their weights; the values up to position `stop` are added, first those
\* of the first half of the stretch and then those of the second
EwmUpTo(q, span, st, stop) ==
    IF Len(st.out) >= stop THEN st
    ELSE IF stop - Len(st.out) > 1
    THEN EwmUpTo(q, span, EwmUpTo(q, span, st, (Len(st.out) + stop) \div 2), stop)
    ELSE LET old_wt == (st.w * (span - 1)) \div (span + 1)
         IN [w |-> old_wt + WScale,
             out |-> Append(st.out,
                            (old_wt * st.out[Len(st.out)] + q[stop] * WScale)
                                \div (old_wt + WScale))]

EwmMean(q, span) ==
    IF Len(q) = 0 THEN << >>
    ELSE EwmUpTo(q, span, [w |-> WScale, out |-> <<q[1]>>], Len(q)).out

\* a column of prices in units of 1 / Scale
Scaled(q) == [i \in 1..Len(q) |-> q[i] * Scale]

Minus(a, b) == [i \in 1..Len(a) |-> a[i] - b[i]]

\* prices.diff(): the first difference is undefined and counts as 0 in
\* delta.where(delta > 0, 0) and delta.where(delta < 0, 0)
Diff(q) == [i \in 1..Len(q) |-> IF i = 1 THEN 0 ELSE q[i] - q[i - 1]]

\* _calculate_rsi as bound in the class (the second definition, which
\* replaces the first): the last value of 100 - 100 / (1 + gain / loss), not
\* a column, with no fillna; 50 only for an empty input
_calculate_rsi(prices, period) ==
    IF prices = << >> THEN Ratio(50, 1)
    ELSE IF Len(prices) < period THEN RatioNaN
    ELSE LET delta == TailN(Diff(prices), period)
             gain == SumSeq([i \in 1..Len(delta) |-> Max(delta[i], 0)])
             loss == SumSeq([i \in 1..Len(delta) |-> Max(-delta[i], 0)])
         IN Ratio(100 * gain, gain + loss)

\* _calculate_obv: the running total seeded with the first volume
RECURSIVE ObvUpTo(_, _, _)
ObvUpTo(data, obv, stop) ==
    IF Len(obv) >= stop THEN obv
    ELSE IF stop - Len(obv) > 1
    THEN ObvUpTo(data, ObvUpTo(data, obv, (Len(obv) + stop) \div 2), stop)
    ELSE LET prev == obv[Len(obv)]
         IN Append(obv,
                   IF data[stop].close > data[stop - 1].close
                   THEN prev + data[stop].volume
                   ELSE IF data[stop].close < data[stop - 1].close
                   THEN prev - data[stop].volume
                   ELSE prev)

\* variant: the running total starts from 0
_calculate_obv_from_zero(data) ==
    IF Len(data) = 0 THEN << >> ELSE ObvUpTo(data, <<0>>, Len(data))

_calculate_obv(data) ==
    IF Len(data) = 0 THEN << >> ELSE ObvUpTo(data, <<data[1].volume>>, Len(data))

\* _calculate_vwap: per bar, sum(typical price * volume) / sum(volume) over the
\* window of `period` bars ending there, typical price = (high+low+close)/3;
\* the fraction is 3 * vwap = n / d
_calculate_vwap(data, period) ==
    [i \in 1..Len(data) |->
        LET window == SubSeq(data, Max(1, i - period + 1), i)
            pv == SumSeq([k \in 1..Len(window) |->
                            (window[k].high + window[k].low + window[k].close)
                                * window[k].volume])
            vol == SumSeq(Column(window, "volume"))
        IN IF vol > 0 THEN [n |-> pv, d |-> vol]
           ELSE [n |-> data[i].high + data[i].low + data[i].close, d |-> 1]]

\* price > vwap, and price < vwap * (1 - tolerance / 100), tolerance in tenths
PriceAboveVwap(price, vwap) == price * 3 * vwap.d > vwap.n
PriceBelowVwap(price, vwap, tolerance) ==
    price * 3 * vwap.d * 100 * Tenth < vwap.n * (100 * Tenth - tolerance)

\* _calculate_trend
_calculate_trend(values) ==
    IF Len(values) < 2 THEN "Belirsiz"
    ELSE LET increases == Cardinality({i \in 2..Len(values) : values[i] > values[i - 1]})
             decreases == Cardinality({i \in 2..Len(values) : values[i] < values[i - 1]})
         IN IF increases > decreases THEN "Yukselis"
            ELSE IF decreases > increases THEN "Dusus"
            ELSE "Yatay"

\* variant: a volume equal to the previous one still counts as an increase
volume_progression_check_nonstrict(volumes, periods_to_check) ==
    /\ Len(volumes) >= periods_to_check + 1
    /\ LET last_volumes == TailN(volumes, periods_to_check + 1)
       IN \A i \in 2..Len(last_volumes) : last_volumes[i] >= last_volumes[i - 1]

\* each of the last periods_to_check + 1 volumes is higher than the previous
volume_progression_check(volumes, periods_to_check) ==
    /\ Len(volumes) >= periods_to_check + 1
    /\ LET last_volumes == TailN(volumes, periods_to_check + 1)
       IN \A i \in 2..Len(last_volumes) : last_volumes[i] > last_volumes[i - 1]

volume_trend(volumes, periods_to_check) ==
    IF Len(volumes) >= periods_to_check + 1
    THEN (IF volume_progression_check(volumes, periods_to_check)
          THEN "Periyot Artis" ELSE "Artis Yok")
    ELSE IF Len(volumes) >= 3 THEN _calculate_trend(TailN(volumes, 3))
    ELSE "Yetersiz Veri"

\* the cross of column a above column b within the last 5 bars:
\* for i in range(1, min(6, len(data))), prev = iloc[-(i+1)], curr = iloc[-i]
CrossedRecently(a, b) ==
    \E i \in 1..(Min(6, Len(a)) - 1) :
        LET curr == Len(a) - i + 1
            prev == Len(a) - i
        IN a[prev] <= b[prev] /\ a[curr] > b[curr]

Zeros(n) == [i \in 1..n |-> 0]

\* sideways movement: the range of the last sideways_days + 1 closes (the
\* latest close included) as a percentage of their minimum
sideways_movement(close, sideways_days, sideways_threshold) ==
    /\ Len(close) >= sideways_days + 5
    /\ LET sideways_period == TailN(close, sideways_days + 1)
       IN /\ Len(sideways_period) > 1
          /\ RatioGE(Ratio(sideways_threshold, Tenth),
                     Ratio((MaxSeq(sideways_period) - MinSeq(sideways_period)) * 100,
                           MinSeq(sideways_period)))

\* local minima of lows: lows[i] below both neighbours
Bottoms(lows) == {i \in 2..(Len(lows) - 1) : lows[i] < lows[i - 1] /\ lows[i] < lows[i + 1]}

\* variant: a bottom equal to the previous one still counts as rising
_check_rising_bottoms_nonstrict(data, lookback_period) ==
    /\ Len(data) >= lookback_period + 5
    /\ LET lows == Column(TailN(data, lookback_period + 5), "low")
           bottoms == Bottoms(lows)
       IN /\ Cardinality(bottoms) >= 2
          /\ LET last == CHOOSE i \in bottoms : \A j \in bottoms : j <= i
                 before == CHOOSE i \in bottoms \ {last} :
                               \A j \in bottoms \ {last} : j <= i
             IN lows[last] >= lows[before]

\* _check_rising_bottoms: the last bottom of the last lookback_period + 5 bars
\* is higher than the one before it
_check_rising_bottoms(data, lookback_period) ==
    /\ Len(data) >= lookback_period + 5
    /\ LET lows == Column(TailN(data, lookback_period + 5), "low")
           bottoms == Bottoms(lows)
       IN /\ Cardinality(bottoms) >= 2
          /\ LET last == CHOOSE i \in bottoms : \A j \in bottoms : j <= i
                 before == CHOOSE i \in bottoms \ {last} :
                               \A j \in bottoms \ {last} : j <= i
             IN lows[last] > lows[before]

\* a low of the last 10 bars is below VWAP by the tolerance and a close of the
\* last 3 bars is above VWAP
vwap_support_test(data, vwap, support_tolerance) ==
    LET n == Len(data)
        recent == {i \in 1..n : i > n - 10}
    IN /\ \E i \in recent : PriceBelowVwap(data[i].low, vwap[i], support_tolerance)
       /\ \E i \in recent : i > n - 3 /\ PriceAboveVwap(data[i].close, vwap[i])

\* obv_percentile: the position of the latest OBV between the minimum and the
\* maximum of the last obv_period values, in percent
obv_percentile(obv, obv_period) ==
    LET obv_period_data == TailN(obv, obv_period)
    IN Ratio((obv[Len(obv)] - MinSeq(obv_period_data)) * 100,
             MaxSeq(obv_period_data) - MinSeq(obv_period_data))

\* obv_percentile >= obv_threshold
obv_at_peak(obv, obv_period, obv_threshold) ==
    RatioGE(obv_percentile(obv, obv_period), Ratio(obv_threshold, 1))

\* current_volume >= mean * multiplier, the multiplier in tenths
VolumeAtLeast(current_volume, mean, multiplier) ==
    RatioGE(Ratio(current_volume * Tenth, 1), Times(mean, multiplier))

\* _detect_triangle_formation: the high-low range of the last bar of the
\* window against that of its first bar
_detect_triangle_formation(data, period, convergence_threshold) ==
    LET recent_data == TailN(data, period)
    IN /\ Len(recent_data) >= 10
       /\ LET price_range_start == recent_data[1].high - recent_data[1].low
              price_range_end == recent_data[Len(recent_data)].high
                                    - recent_data[Len(recent_data)].low
          IN /\ price_range_start > 0
             /\ RatioGE(Ratio((price_range_start - price_range_end) * 100,
                              price_range_start),
                        Ratio(convergence_threshold, Tenth))

\* _check_volume_decline: mean volume of the first half of the window against
\* that of its last half
_check_volume_decline(data, period, threshold) ==
    /\ Len(data) >= period
    /\ LET volume == Column(TailN(data, period), "volume")
           early_volume == Mean(HeadN(volume, period \div 2))
           late_volume == Mean(TailN(volume, period \div 2))
       IN /\ period \div 2 > 0
          /\ RatioGT(early_volume, Ratio(0, 1))
          /\ RatioGE(Ratio((early_volume.n - late_volume.n) * 100, early_volume.n),
                     Ratio(threshold, 1))

\* variant: the high, the low and the mean volume are taken over all of the
\* last 5 bars, the latest included
_check_breakout_latest_included(data, current_volume, volume_increase_threshold) ==
    IF Len(data) < 5 THEN [confirmed |-> FALSE, direction |-> "None"]
    ELSE LET recent_data == TailN(data, 5)
             latest_close == recent_data[5].close
             volume_sum == SumSeq(Column(recent_data, "volume"))
             volume_breakout ==
                 /\ volume_sum > 0
                 /\ RatioGE(Ratio((current_volume * 5 - volume_sum) * 100, volume_sum),
                            Ratio(volume_increase_threshold, 1))
             recent_high == MaxSeq(Column(recent_data, "high"))
             recent_low == MinSeq(Column(recent_data, "low"))
             direction == IF latest_close > recent_high THEN "up"
                          ELSE IF latest_close < recent_low THEN "down"
                          ELSE "None"
         IN [confirmed |-> volume_breakout /\ direction # "None",
             direction |-> direction]

\* _check_breakout_with_volume: (confirmed, direction) on the last 5 bars
_check_breakout_with_volume(data, current_volume, volume_increase_threshold) ==
    IF Len(data) < 5 THEN [confirmed |-> FALSE, direction |-> "None"]
    ELSE LET recent_data == TailN(data, 5)
             latest_close == recent_data[5].close
             before == SubSeq(recent_data, 1, 4)
             volume_sum == SumSeq(Column(before, "volume"))
             volume_breakout ==
                 /\ volume_sum > 0
                 /\ RatioGE(Ratio((current_volume * 4 - volume_sum) * 100, volume_sum),
                            Ratio(volume_increase_threshold, 1))
             recent_high == MaxSeq(Column(before, "high"))
             recent_low == MinSeq(Column(before, "low"))
             direction == IF latest_close > recent_high THEN "up"
                          ELSE IF latest_close < recent_low THEN "down"
                          ELSE "None"
         IN [confirmed |-> volume_breakout /\ direction # "None",
             direction |-> direction]

\* variant: any confirmed breakout counts, whatever its direction
breakout_direction_correct_any(breakout, breakout_direction) ==
    breakout.confirmed

breakout_direction_correct(breakout, breakout_direction) ==
    IF breakout_direction = "Her Ikisi" THEN breakout.confirmed
    ELSE IF breakout_direction = "Yukari"
    THEN breakout.confirmed /\ breakout.direction = "up"
    ELSE IF breakout_direction = "Asagi"
    THEN breakout.confirmed /\ breakout.direction = "down"
    ELSE FALSE

\* _find_local_minima(series, window=3) on a column of fractions: position i
\* is a minimum unless some other position of its window holds a value <= it
\* (a comparison with NaN is false, and disqualifies nothing)
minima_window == 3

_find_local_minima(series) ==
    {i \in (minima_window + 1)..(Len(series) - minima_window) :
        \A j \in (i - minima_window)..(i + minima_window) :
            j = i \/ ~RatioGE(series[i], series[j])}

\* the last element of a non-empty set of positions, and the one before it
LastOf(S) == CHOOSE i \in S : \A j \in S : j <= i

Fractions(q) == [i \in 1..Len(q) |-> Ratio(q[i], 1)]

\* _detect_rsi_divergence: the last two local minima of the lows and of the
\* rsi column over the last `period` bars; the strength is
\* (rsi change / 100) / max(price change, 0.001), min_strength in tenths
_detect_rsi_divergence(data, rsi, period, min_strength) ==
    /\ Len(data) >= period
    /\ LET prices == Column(TailN(data, period), "low")
           rsi_values == TailN(rsi, period)
           price_lows == _find_local_minima(Fractions(prices))
           rsi_lows == _find_local_minima(rsi_values)
       IN /\ Cardinality(price_lows) >= 2
          /\ Cardinality(rsi_lows) >= 2
          /\ LET last_price_low == prices[LastOf(price_lows)]
                 prev_price_low == prices[LastOf(price_lows \ {LastOf(price_lows)})]
                 last_rsi_low == rsi_values[LastOf(rsi_lows)]
                 prev_rsi_low == rsi_values[LastOf(rsi_lows \ {LastOf(rsi_lows)})]
             IN /\ last_price_low < prev_price_low
                /\ RatioGT(last_rsi_low, prev_rsi_low)
                \* rsi_change / 100 >= min_strength * max(price_change, 0.001)
                /\ LET rsi_change == Ratio(last_rsi_low.n * prev_rsi_low.d
                                             - prev_rsi_low.n * last_rsi_low.d,
                                           last_rsi_low.d * prev_rsi_low.d * 100)
                       price_change == Ratio(prev_price_low - last_price_low,
                                             prev_price_low)
                       floor == IF RatioGE(price_change, Ratio(1, 1000))
                                THEN price_change ELSE Ratio(1, 1000)
                   IN RatioGE(rsi_change,
                              Ratio(floor.n * min_strength, floor.d * Tenth))

\* data['rsi'].iloc[-divergence_period:].min() <= rsi_oversold_threshold; min()
\* skips NaN and is NaN when nothing is left
rsi_oversold(rsi, divergence_period, rsi_oversold_threshold) ==
    LET recent == TailN(rsi, divergence_period)
    IN \E i \in 1..Len(recent) :
           RatioGE(Ratio(rsi_oversold_threshold, 1), recent[i])

\* _check_resistance_breakout: the close against the highest high of the
\* `period` bars before the latest, raised by breakout_percent (in tenths)
_check_resistance_breakout(data, period, breakout_percent) ==
    /\ Len(data) >= period + 1
    /\ LET resistance_data == SubSeq(data, Len(data) - period, Len(data) - 1)
           resistance_level == MaxSeq(Column(resistance_data, "high"))
       IN data[Len(data)].close * 100 * Tenth
              >= resistance_level * (100 * Tenth + breakout_percent)

\* _check_volume_confirmation_breakout: the volume against the mean of the
\* five volumes before the latest (iloc[-6:-1]), multiplier in tenths
_check_volume_confirmation_breakout(data, current_volume, multiplier) ==
    /\ Len(data) >= 5
    /\ LET before == SubSeq(data, Max(1, Len(data) - 5), Len(data) - 1)
       IN VolumeAtLeast(current_volume, Mean(Column(before, "volume")), multiplier)

\* the integer square root, by bisection
RECURSIVE IsqrtIn(_, _, _)
IsqrtIn(n, lo, hi) ==
    IF lo >= hi THEN lo
    ELSE LET mid == (lo + hi + 1) \div 2
         IN IF mid * mid <= n THEN IsqrtIn(n, mid, hi) ELSE IsqrtIn(n, lo, mid - 1)

Isqrt(n) == IsqrtIn(n, 0, Min(n, 46340))

\* close.rolling(window=period): at bar i the sum of the window and its sample
\* standard deviation (ddof = 1) in tenths; undefined before `period` bars
RollingSum(close, period, i) == SumSeq(SubSeq(close, i - period + 1, i))

RollingStd(close, period, i) ==
    LET window == SubSeq(close, i - period + 1, i)
        total == SumSeq(window)
        squares == SumSeq([k \in 1..period |-> window[k] * window[k]])
    IN Isqrt(((period * squares - total * total) * Tenth * Tenth)
                 \div (period * (period - 1)))

\* upper_band = sma + std * std_dev at bar i, std_dev in tenths
UpperBand(close, period, std_dev, i) ==
    IF i < period \/ period < 2 THEN RatioNaN
    ELSE Ratio(RollingSum(close, period, i) * Tenth * Tenth
                  + RollingStd(close, period, i) * std_dev * period,
               Tenth * Tenth * period)

\* band_width = (upper_band - lower_band) / sma * 100 at bar i, in thousandths
BandWidthScale == 1000

BandWidth(close, period, std_dev, i) ==
    IF i < period \/ period < 2 THEN RatioNaN
    ELSE Ratio((2 * RollingStd(close, period, i) * std_dev * period * BandWidthScale)
                  \div Max(RollingSum(close, period, i), 1), 1)

\* Series.quantile(q) with linear interpolation over the values that are not
\* NaN, times 100; percentile is q * 100
OrderStat(values, k) ==
    CHOOSE v \in {values[i] : i \in DOMAIN values} :
        /\ Cardinality({i \in DOMAIN values : values[i] < v}) <= k
        /\ Cardinality({i \in DOMAIN values : values[i] <= v}) > k

Quantile100(values, percentile) ==
    LET n == Len(values)
        pos == (n - 1) * percentile
        lo == pos \div 100
        rem == pos % 100
        hi == Min(lo + 1, n - 1)
    IN OrderStat(values, lo) * 100
           + rem * (OrderStat(values, hi) - OrderStat(values, lo))

\* _detect_bollinger_squeeze: the latest band width is within the lowest
\* percentile of the widths of the last squeeze_months * 22 bars
_detect_bollinger_squeeze(data, period, std_dev, squeeze_months, percentile) ==
    /\ Len(data) >= period * 22 * squeeze_months
    /\ LET close == Column(data, "close")
           squeeze_days == squeeze_months * 22
           first == Max(1, Len(data) - squeeze_days + 1)
           defined == {i \in first..Len(data) :
                          ~IsNaN(BandWidth(close, period, std_dev, i))}
           historical_width ==
               [k \in 1..Cardinality(defined) |->
                   BandWidth(close, period, std_dev,
                             Len(data) - Cardinality(defined) + k).n]
           current_width == BandWidth(close, period, std_dev, Len(data))
       IN /\ ~IsNaN(current_width)
          /\ current_width.n * 100 <= Quantile100(historical_width, percentile)

\* _check_upper_band_breakout: close >= upper_band * (1 + breakout_percent/100)
_check_upper_band_breakout(data, period, std_dev, breakout_percent) ==
    /\ Len(data) >= period
    /\ LET close == Column(data, "close")
           upper_band == UpperBand(close, period, std_dev, Len(data))
       IN RatioGE(Ratio(close[Len(close)] * 100 * Tenth, 1),
                  Times(upper_band, 100 * Tenth + breakout_percent))

\* _check_consecutive_upper_closes: each of the last `days` closes is at least
\* 0.98 of its upper band
upper_band_proximity == 98

_check_consecutive_upper_closes(data, period, std_dev, days) ==
    /\ Len(data) >= Max(period, days)
    /\ LET close == Column(data, "close")
       IN \A i \in (Len(data) - days + 1)..Len(data) :
              LET upper_band == UpperBand(close, period, std_dev, i)
              IN RatioGE(Ratio(close[i] * 100, 1),
                         Times(upper_band, upper_band_proximity))

\* idxmax / idxmin: the first position of the extreme value
IdxMax(q) == CHOOSE i \in 1..Len(q) : q[i] = MaxSeq(q) /\ \A j \in 1..(i - 1) : q[j] # q[i]
IdxMin(q) == CHOOSE i \in 1..Len(q) : q[i] = MinSeq(q) /\ \A j \in 1..(i - 1) : q[j] # q[i]

\* the Fibonacci levels, in thousandths
fib_382 == 382
fib_500 == 500
fib_618 == 618

\* _detect_fibonacci_retracement: the swing high precedes the swing low, the
\* close lies between the two target levels and within tolerance of a
\* Fibonacci level; retracements and tolerance in tenths of a percent
_detect_fibonacci_retracement(data, lookback_period, min_retracement, max_retracement, tolerance) ==
    /\ Len(data) >= lookback_period
    /\ LET recent_data == TailN(data, lookback_period)
           highs == Column(recent_data, "high")
           lows == Column(recent_data, "low")
           swing_high == MaxSeq(highs)
           swing_low == MinSeq(lows)
           price_range == swing_high - swing_low
           latest_close == recent_data[Len(recent_data)].close
           \* all levels in thousandths of a price unit
           level(ratio) == swing_high * 1000 - price_range * ratio
           near(ratio) == Abs(latest_close * 1000 - level(ratio))
                              <= price_range * tolerance
       IN /\ lookback_period > 0
          /\ IdxMax(highs) < IdxMin(lows)
          /\ level(max_retracement) <= latest_close * 1000
          /\ latest_close * 1000 <= level(min_retracement)
          /\ (near(fib_382) \/ near(fib_500) \/ near(fib_618))

\* _find_swing_points(prices, window=5): the positions whose price is >= all
\* others of its window (a high) or <= all of them (a low)
swing_window == 5

_find_swing_points(prices) ==
    LET is_high(i) == \A j \in (i - swing_window)..(i + swing_window) : prices[i] >= prices[j]
        is_low(i) == \A j \in (i - swing_window)..(i + swing_window) : prices[i] <= prices[j]
        at == {i \in (swing_window + 1)..(Len(prices) - swing_window) :
                  is_high(i) \/ is_low(i)}
        nth[k \in 1..Cardinality(at)] ==
            CHOOSE i \in at : Cardinality({j \in at : j < i}) = k - 1
    IN [k \in 1..Cardinality(at) |->
           [index |-> nth[k], price |-> prices[nth[k]],
            type |-> IF is_high(nth[k]) THEN "high" ELSE "low"]]

\* abs(leg / base - target) <= tolerance / 100, with leg / base = 0 when the
\* base is 0; target in thousandths, tolerance in tenths of a percent
RatioNear(leg, base, target, tolerance) ==
    IF base > 0 THEN Abs(leg * 1000 - target * base) <= tolerance * base
    ELSE target <= tolerance

\* variant: BC/AB and CD/BC have one target each
_check_gartley_pattern_single_target(points, tolerance) ==
    /\ Len(points) >= 5
    /\ LET X == points[1].price
           A == points[2].price
           B == points[3].price
           C == points[4].price
           D == points[5].price
       IN /\ RatioNear(Abs(B - A), Abs(A - X), 618, tolerance)
          /\ RatioNear(Abs(C - B), Abs(B - A), 382, tolerance)
          /\ RatioNear(Abs(D - C), Abs(C - B), 1272, tolerance)
          /\ RatioNear(Abs(D - A), Abs(A - X), 786, tolerance)

_check_gartley_pattern(points, tolerance) ==
    /\ Len(points) >= 5
    /\ LET X == points[1].price
           A == points[2].price
           B == points[3].price
           C == points[4].price
           D == points[5].price
       IN /\ RatioNear(Abs(B - A), Abs(A - X), 618, tolerance)
          /\ (RatioNear(Abs(C - B), Abs(B - A), 382, tolerance)
                \/ RatioNear(Abs(C - B), Abs(B - A), 886, tolerance))
          /\ (RatioNear(Abs(D - C), Abs(C - B), 1272, tolerance)
                \/ RatioNear(Abs(D - C), Abs(C - B), 1618, tolerance))
          /\ RatioNear(Abs(D - A), Abs(A - X), 786, tolerance)

_check_bat_pattern(points, tolerance) ==
    /\ Len(points) >= 5
    /\ LET X == points[1].price
           A == points[2].price
           B == points[3].price
           D == points[5].price
       IN /\ (RatioNear(Abs(B - A), Abs(A - X), 382, tolerance)
                \/ RatioNear(Abs(B - A), Abs(A - X), 500, tolerance))
          /\ RatioNear(Abs(D - A), Abs(A - X), 886, tolerance)

_check_butterfly_pattern(points, tolerance) ==
    /\ Len(points) >= 5
    /\ LET X == points[1].price
           A == points[2].price
           B == points[3].price
           D == points[5].price
       IN /\ RatioNear(Abs(B - A), Abs(A - X), 786, tolerance)
          /\ (RatioNear(Abs(D - A), Abs(A - X), 1272, tolerance)
                \/ RatioNear(Abs(D - A), Abs(A - X), 1618, tolerance))

_check_crab_pattern(points, tolerance) ==
    /\ Len(points) >= 5
    /\ LET X == points[1].price
           A == points[2].price
           B == points[3].price
           D == points[5].price
       IN /\ (RatioNear(Abs(B - A), Abs(A - X), 382, tolerance)
                \/ RatioNear(Abs(B - A), Abs(A - X), 618, tolerance))
          /\ RatioNear(Abs(D - A), Abs(A - X), 1618, tolerance)

\* variant: the first five swing points of the window are taken
_detect_harmonic_pattern_first_five(data, pattern_type, tolerance, lookback_period) ==
    /\ Len(data) >= lookback_period
    /\ lookback_period >= 20
    /\ LET swing_points == _find_swing_points(Column(TailN(data, lookback_period), "close"))
           points == HeadN(swing_points, 5)
       IN /\ Len(swing_points) >= 5
          /\ CASE pattern_type = "Otomatik" ->
                    \/ _check_gartley_pattern(points, tolerance)
                    \/ _check_bat_pattern(points, tolerance)
                    \/ _check_butterfly_pattern(points, tolerance)
                    \/ _check_crab_pattern(points, tolerance)
               [] pattern_type = "Gartley" -> _check_gartley_pattern(points, tolerance)
               [] pattern_type = "Bat" -> _check_bat_pattern(points, tolerance)
               [] pattern_type = "Butterfly" -> _check_butterfly_pattern(points, tolerance)
               [] pattern_type = "Crab" -> _check_crab_pattern(points, tolerance)
               [] OTHER -> FALSE

\* _detect_harmonic_pattern on the last five swing points of the closes
_detect_harmonic_pattern(data, pattern_type, tolerance, lookback_period) ==
    /\ Len(data) >= lookback_period
    /\ lookback_period >= 20
    /\ LET swing_points == _find_swing_points(Column(TailN(data, lookback_period), "close"))
           points == TailN(swing_points, 5)
       IN /\ Len(swing_points) >= 5
          /\ CASE pattern_type = "Otomatik" ->
                    \/ _check_gartley_pattern(points, tolerance)
                    \/ _check_bat_pattern(points, tolerance)
                    \/ _check_butterfly_pattern(points, tolerance)
                    \/ _check_crab_pattern(points, tolerance)
               [] pattern_type = "Gartley" -> _check_gartley_pattern(points, tolerance)
               [] pattern_type = "Bat" -> _check_bat_pattern(points, tolerance)
               [] pattern_type = "Butterfly" -> _check_butterfly_pattern(points, tolerance)
               [] pattern_type = "Crab" -> _check_crab_pattern(points, tolerance)
               [] OTHER -> FALSE

\* _check_fibonacci_support: the last five lows never fall and the close is
\* more than 1% above the lowest low of the last 10 bars
_check_fibonacci_support(data, lookback_period) ==
    /\ Len(data) >= lookback_period + 5
    /\ LET recent_data == TailN(data, 10)
           lows == Column(recent_data, "low")
           recent_lows == TailN(lows, 5)
       IN /\ \A i \in 2..Len(recent_lows) : recent_lows[i] >= recent_lows[i - 1]
          /\ recent_data[Len(recent_data)].close * 100 > MinSeq(lows) * 101


\* the names of the boolean sub-criteria of a result
SubCriteria ==
    {"volume_progression_check", "golden_cross", "golden_cross_recent",
     "macd_zero_breakout", "macd_zero_breakout_recent", "macd_histogram_positive",
     "sideways_movement", "vwap_support_test", "vwap_breakout_recent",
     "rising_bottoms", "triple_volume_confirmed", "rsi_in_range", "obv_at_peak",
     "triangle_detected", "volume_declined", "breakout_confirmed",
     "breakout_direction_correct", "rsi_divergence_detected", "rsi_oversold",
     "resistance_broken", "volume_confirmed_breakout", "bb_squeeze_detected",
     "upper_band_broken", "volume_confirmed_squeeze", "consecutive_upper_closes",
     "fib_retracement_detected", "harmonic_pattern_detected",
     "fib_support_confirmed", "volume_confirmed_fib"}


\* analyze_stock_volume(symbol, ..., **kw) on the Series the fetch returns, at
\* wall-clock time now
analyze_stock_volume(series, kw, now) ==
    IF series.fetch # "ok" THEN NoAnalysis(get_stock_data_log(series.fetch), TRUE)
    ELSE IF Len(series.bars) < kw.sma_period THEN NoAnalysis(<< >>, FALSE)
    ELSE IF series.bars = << >>
    \* data.iloc[-1] of an empty frame raises IndexError, caught by the except
    THEN NoAnalysis(<<"Error analyzing">>, FALSE)
    ELSE
    LET data == series.bars
        n == Len(data)
        close == Column(data, "close")
        volume == Column(data, "volume")
        volume_sma == RollingMeanLast(volume, kw.sma_period)
        ema_short == EwmMean(Scaled(close), kw.ema_short)
        ema_long == EwmMean(Scaled(close), kw.ema_long)
        volume_ma == RollingMeanLast(volume, kw.volume_period)
        macd_line == Minus(EwmMean(Scaled(close), kw.macd_fast),
                           EwmMean(Scaled(close), kw.macd_slow))
        macd_histogram == Minus(macd_line, EwmMean(macd_line, kw.macd_signal))
        vwap == _calculate_vwap(data, kw.vwap_period)
        \* the scalar _calculate_rsi returns, broadcast over the column
        rsi_current == _calculate_rsi(close, kw.rsi_period)
        rsi == [i \in 1..n |-> rsi_current]
        obv == _calculate_obv(data)
        current_volume == volume[n]
        latest_close == close[n]
        golden_ok == n >= Max(kw.ema_short, kw.ema_long) + 5
        macd_ok == n >= Max(kw.macd_fast, kw.macd_slow) + kw.macd_signal + 5
        vwap_ok == n >= kw.vwap_period + kw.bottom_lookback
        triple_ok == n >= Max(kw.volume_avg_period, Max(kw.rsi_period, kw.obv_period))
        triangle_ok == n >= kw.triangle_period
        divergence_ok == n >= kw.divergence_period
        bb_ok == n >= kw.bb_period
        fib_ok == n >= kw.fib_lookback_period
        breakout == IF triangle_ok
                    THEN _check_breakout_with_volume(data, current_volume,
                                                     kw.breakout_volume_increase)
                    ELSE [confirmed |-> FALSE, direction |-> "None"]
    IN IF IsNaN(volume_sma) \/ volume_sma.n = 0 THEN NoAnalysis(<< >>, FALSE)
       ELSE
       [kind |-> "record", msgs |-> << >>, fetch_failed |-> FALSE,
        current_volume |-> current_volume,
        volume_sma |-> volume_sma,
        volume_ma |-> volume_ma,
        current_price |-> latest_close,
        volume_trend |-> volume_trend(volume, kw.periods_to_check),
        \* volume_ratio = current_volume / volume_sma
        ratio_num |-> current_volume * volume_sma.d,
        ratio_den |-> volume_sma.n,
        volume_progression_check |->
            volume_progression_check(volume, kw.periods_to_check),
        ema_short |-> ema_short[n],
        ema_long |-> ema_long[n],
        golden_cross |-> golden_ok /\ ema_short[n] > ema_long[n],
        golden_cross_recent |-> golden_ok /\ CrossedRecently(ema_short, ema_long),
        macd_line |-> macd_line[n],
        macd_histogram |-> macd_histogram[n],
        macd_zero_breakout |-> macd_ok /\ macd_line[n] > 0,
        macd_zero_breakout_recent |-> macd_ok /\ CrossedRecently(macd_line, Zeros(n)),
        macd_histogram_positive |-> macd_histogram[n] > 0,
        sideways_movement |->
            sideways_movement(close, kw.sideways_days, kw.sideways_threshold),
        vwap |-> vwap[n],
        vwap_support_test |->
            vwap_ok /\ vwap_support_test(data, vwap, kw.support_tolerance),
        vwap_breakout_recent |-> vwap_ok /\ PriceAboveVwap(latest_close, vwap[n]),
        rising_bottoms |-> vwap_ok /\ _check_rising_bottoms(data, kw.bottom_lookback),
        rsi |-> rsi_current,
        obv |-> obv[n],
        triple_volume_confirmed |->
            triple_ok /\ VolumeAtLeast(current_volume,
                                       Mean(TailN(volume, kw.volume_avg_period)),
                                       kw.volume_multiplier_triple),
        rsi_in_range |->
            triple_ok /\ RatioGE(rsi_current, Ratio(kw.rsi_min, 1))
                      /\ RatioGE(Ratio(kw.rsi_max, 1), rsi_current),
        obv_at_peak |-> triple_ok /\ obv_at_peak(obv, kw.obv_period, kw.obv_threshold),
        triangle_detected |->
            triangle_ok /\ _detect_triangle_formation(data, kw.triangle_period,
                                                      kw.convergence_threshold),
        volume_declined |->
            triangle_ok /\ _check_volume_decline(data, kw.volume_decline_period,
                                                 kw.volume_decline_threshold),
        breakout_confirmed |-> breakout.confirmed,
        breakout_direction_correct |->
            triangle_ok /\ breakout_direction_correct(breakout, kw.breakout_direction),
        rsi_divergence_detected |->
            divergence_ok /\ _detect_rsi_divergence(data, rsi, kw.divergence_period,
                                                    kw.min_divergence_strength),
        rsi_oversold |->
            divergence_ok /\ rsi_oversold(rsi, kw.divergence_period,
                                          kw.rsi_oversold_threshold),
        resistance_broken |->
            divergence_ok /\ _check_resistance_breakout(data, kw.resistance_period,
                                                        kw.resistance_breakout_percent),
        volume_confirmed_breakout |->
            divergence_ok /\ _check_volume_confirmation_breakout(
                                 data, current_volume, kw.volume_breakout_multiplier),
        bb_squeeze_detected |->
            bb_ok /\ _detect_bollinger_squeeze(data, kw.bb_period, kw.bb_std_dev,
                                               kw.squeeze_period, kw.squeeze_percentile),
        upper_band_broken |->
            bb_ok /\ _check_upper_band_breakout(data, kw.bb_period, kw.bb_std_dev,
                                                kw.upper_band_breakout_percent),
        volume_confirmed_squeeze |->
            bb_ok /\ _check_volume_confirmation_breakout(
                         data, current_volume, kw.volume_squeeze_multiplier),
        consecutive_upper_closes |->
            bb_ok /\ _check_consecutive_upper_closes(data, kw.bb_period, kw.bb_std_dev,
                                                     kw.consecutive_days),
        fib_retracement_detected |->
            fib_ok /\ _detect_fibonacci_retracement(
                          data, kw.fib_lookback_period, kw.fib_retracement_min,
                          kw.fib_retracement_max, kw.fib_support_tolerance),
        harmonic_pattern_detected |->
            fib_ok /\ _detect_harmonic_pattern(data, kw.harmonic_pattern_type,
                                               kw.harmonic_tolerance,
                                               kw.fib_lookback_period),
        fib_support_confirmed |->
            fib_ok /\ _check_fibonacci_support(data, kw.fib_lookback_period),
        volume_confirmed_fib |->
            fib_ok /\ _check_volume_confirmation_breakout(
                          data, current_volume, kw.fib_volume_multiplier),
        data_points |-> n,
        last_update |-> now]

\* volume_ratio >= threshold, with threshold = num / den
RatioAtLeast(a, num, den) == a.ratio_num * den >= num * a.ratio_den

\* variant: the volume ratio alone decides
volume_increase_met_ratio_only(kw, analysis) ==
    RatioAtLeast(analysis, kw.min_volume_multiplier, Tenth)

\* volume_ratio >= min_volume_multiplier and volume_progression
volume_increase_met(kw, analysis) ==
    /\ RatioAtLeast(analysis, kw.min_volume_multiplier, Tenth)
    /\ analysis.volume_progression_check

\* apply_scan_criteria: criteria_met of the scan type
criteria_met(kw, analysis) ==
    LET volume_ratio_at_least(multiplier) == RatioAtLeast(analysis, multiplier, Tenth)
        volume_increase == volume_increase_met(kw, analysis)
    IN CASE kw.scan_type = "3_period_increase" -> volume_increase
         [] kw.scan_type = "ema_golden_cross" ->
                /\ analysis.golden_cross_recent
                \* (current_volume - volume_ma) / volume_ma * 100 >= volume_threshold
                /\ RatioGT(analysis.volume_ma, Ratio(0, 1))
                /\ RatioGE(Ratio(analysis.current_volume * 100, 1),
                           Times(analysis.volume_ma, 100 + kw.volume_threshold))
         [] kw.scan_type = "macd_zero_breakout" ->
                /\ analysis.macd_zero_breakout_recent
                /\ analysis.macd_histogram_positive
                /\ analysis.sideways_movement
                /\ (kw.volume_confirmation => volume_ratio_at_least(12))
         [] kw.scan_type = "vwap_support_test" ->
                /\ analysis.vwap_support_test
                /\ analysis.vwap_breakout_recent
                /\ analysis.rising_bottoms
                /\ (kw.vol_confirm_vwap => volume_ratio_at_least(kw.vol_multiplier_vwap))
         [] kw.scan_type = "triple_volume_confirmation" ->
                /\ analysis.triple_volume_confirmed
                /\ analysis.rsi_in_range
                /\ analysis.obv_at_peak
         [] kw.scan_type = "triangle_breakout" ->
                /\ analysis.triangle_detected
                /\ analysis.volume_declined
                /\ analysis.breakout_direction_correct
         [] kw.scan_type = "rsi_divergence_breakout" ->
                /\ analysis.rsi_divergence_detected
                /\ analysis.rsi_oversold
                /\ analysis.resistance_broken
                /\ analysis.volume_confirmed_breakout
         [] kw.scan_type = "bollinger_squeeze_breakout" ->
                /\ analysis.bb_squeeze_detected
                /\ analysis.upper_band_broken
                /\ analysis.volume_confirmed_squeeze
                /\ analysis.consecutive_upper_closes
         [] kw.scan_type = "fibonacci_harmonic_pattern" ->
                /\ analysis.fib_retracement_detected
                /\ analysis.harmonic_pattern_detected
                /\ analysis.fib_support_confirmed
                /\ analysis.volume_confirmed_fib
         [] kw.scan_type = "future_scan_3" -> FALSE
         [] OTHER -> volume_increase

\* a bar that opens and closes at c, with high c + up and low c - down
Candle(c, up, down, v) == Bar(c, c + up, c - down, c, v)

\* a Series of the given closes and volumes, every bar reaching `spread`
\* above and below its close
OkSeries(closes, spread, volumes) ==
    [fetch |-> "ok",
     bars |-> [i \in 1..Len(closes) |-> Candle(closes[i], spread, spread, volumes[i])]]

Const(n, x) == [i \in 1..n |-> x]

\* n bars at one price and one volume
FlatAt(n, price, volume) == OkSeries(Const(n, price), 0, Const(n, volume))

FlatSeries(n) == FlatAt(n, 100, 50)

\* n bars whose close and volume rise by one from bar to bar
RisingSeries(n) == OkSeries([i \in 1..n |-> 50 + i], 1, [i \in 1..n |-> 10 + i])

\* 30 bars of strictly increasing volume: 1, 2, ..., 29 and then `last`
RampVolume(last) == [i \in 1..30 |-> IF i < 30 THEN i ELSE last]

\* 20 bars whose last 14 price changes gain 13 and lose 6 (RSI 68), closing
\* on a rise at six times the usual volume
TripleCloses ==
    <<50, 50, 50, 50, 50, 50, 52, 51, 53, 52, 54, 53, 55, 54, 56, 55, 56, 55, 56, 57>>

TripleSeries == OkSeries(TripleCloses, 1, [i \in 1..20 |-> IF i < 20 THEN 10 ELSE 60])

\* 20 bars whose lows bottom at bar 6 and, one lower, at bar 13, while the
\* 5-bar RSI of the closes bottoms at 20 and then at 25
DivergenceCloses ==
    <<60, 57, 55, 56, 57, 54, 56, 59, 56, 57, 54, 56, 53, 56, 57, 54, 56, 54, 51, 48>>

DivergenceSeries == OkSeries(DivergenceCloses, 1, Const(20, 10))

\* 30 bars around 50 that dip to a bottom at bar 18 and to a second bottom at
\* bar 22, `second` above the first, and end on `last` at three times the
\* usual volume
VwapCloses(second, last) ==
    [i \in 1..30 |->
        IF i <= 16 THEN 50
        ELSE IF i = 30 THEN last
        ELSE <<48, 46, 48, 50, 49, 46 + second, 49, 50, 51, 51, 52, 52, 53>>[i - 16]]

VwapSeries(second, last) ==
    OkSeries(VwapCloses(second, last), 1, [i \in 1..30 |-> IF i < 30 THEN 10 ELSE 30])

\* 44 bars closing at 100 and a last bar closing at `last` on three times the
\* usual volume: the MACD line leaves 0 on the last bar
MacdSeries(last) ==
    OkSeries([i \in 1..45 |-> IF i < 45 THEN 100 ELSE last], 1,
             [i \in 1..45 |-> IF i < 45 THEN 10 ELSE 30])

\* 20 bars closing at 50: the first reaches first_spread around its close and
\* the others 1; the volume is early_volume for 15 bars, then 8 for 4 bars;
\* the last bar closes at `last` on last_volume
TriangleSeries(first_spread, early_volume, last, last_volume) ==
    [fetch |-> "ok",
     bars |-> [i \in 1..20 |->
                 IF i = 1 THEN Candle(50, first_spread, first_spread, early_volume)
                 ELSE IF i <= 15 THEN Candle(50, 1, 1, early_volume)
                 ELSE IF i < 20 THEN Candle(50, 1, 1, 8)
                 ELSE Candle(last, 1, 1, last_volume)]]

TriangleCases ==
    { TriangleSeries(5, 20, 53, 16), TriangleSeries(5, 20, 47, 16),
      TriangleSeries(5, 20, 50, 16), TriangleSeries(5, 20, 53, 9),
      TriangleSeries(1, 20, 53, 16), TriangleSeries(5, 8, 53, 16) }

\* 80 bars: 70 closes swinging between 50 and 54, then 10 between 52 and 53,
\* so that the latest 10-bar band is the narrowest of the last 66
SqueezeSeries ==
    OkSeries([i \in 1..80 |-> IF i <= 70 THEN 50 + 4 * (i % 2) ELSE 52 + (i % 2)],
             1, Const(80, 10))

\* the Series the batch loops meet
SeriesCases ==
    { [fetch |-> "error", bars |-> << >>],
      [fetch |-> "empty", bars |-> << >>],
      FlatSeries(5),
      FlatSeries(20),
      OkSeries(Const(30, 100), 1, RampVolume(100)),
      OkSeries(Const(30, 100), 1, RampVolume(31)),
      OkSeries(Const(30, 100), 1, [i \in 1..30 |-> IF i < 30 THEN 50 ELSE 90]),
      TripleSeries }

\* min_volume_ratio=1.5 of batch_analyze
MinRatioNum == 3
MinRatioDen == 2

(***************************************************************************)
(* The batch loops.                                                        *)
(***************************************************************************)
MaxSymbols == 3

Modes == {"analyze_stocks_comprehensive", "batch_analyze", "run_analysis",
          "screen_stocks_fundamental"}

\* screen_stocks_fundamental, scan_type 'low_pe': market-cap window (millions
\* of TL) and P/E window of _passes_fundamental_criteria
min_market_cap == 100
max_market_cap == 100000
min_pe == 0
max_pe == 15 * Scale
\* results[:50]
TopResults == 50

_passes_fundamental_criteria(data) ==
    /\ ~(data.market_cap_est < min_market_cap \/ data.market_cap_est > max_market_cap)
    /\ min_pe <= data.pe_ratio.v
    /\ data.pe_ratio.v <= max_pe

\* parameter sets the sidebar can produce: for the triple confirmation scan
\* RSI Min is 50..70 and RSI Max is 65..80
ParamCases ==
    { ScanDefaults,
      [ScanDefaults EXCEPT !.scan_type = "triple_volume_confirmation"],
      [ScanDefaults EXCEPT !.scan_type = "triple_volume_confirmation",
                           !.rsi_min = 70, !.rsi_max = 65] }

MinTotalPointsCases == {0, 26}

\* analyze_stock_volume on each Series the batch loops meet, under each
\* parameter set, evaluated once
Analyses ==
    { [kw |-> p, analysis |-> analyze_stock_volume(series, p, 0)] :
          series \in SeriesCases, p \in ParamCases }

Row(sym, total, fund, num, den, pe) ==
    [symbol |-> sym, total_points |-> total, fundamental_points |-> fund,
     ratio_num |-> num, ratio_den |-> den, pe_ratio |-> pe]

\* variant: results ordered by total_points only
results_key_gt_total_only(a, b) == a.total_points > b.total_points

\* key=(total_points, fundamental_points), reverse=True
results_key_gt(a, b) ==
    \/ a.total_points > b.total_points
    \/ a.total_points = b.total_points /\ a.fundamental_points > b.fundamental_points

\* key=volume_ratio, reverse=True
volume_ratio_gt(a, b) == a.ratio_num * b.ratio_den > b.ratio_num * a.ratio_den

\* _sort_fundamental_results, 'low_pe': sorted(results, key=pe_ratio)
pe_ratio_lt(a, b) == a.pe_ratio < b.pe_ratio

\* a sorts strictly before b
KeyGreater(m, a, b) ==
    IF m = "analyze_stocks_comprehensive" THEN results_key_gt(a, b)
    ELSE IF m = "screen_stocks_fundamental" THEN pe_ratio_lt(a, b)
    ELSE volume_ratio_gt(a, b)

\* list.sort(reverse=True) is stable: equal keys keep their order
RECURSIVE InsertDesc(_, _, _)
InsertDesc(m, x, q) ==
    IF q = << >> THEN <<x>>
    ELSE IF KeyGreater(m, x, Head(q)) THEN <<x>> \o q
    ELSE <<Head(q)>> \o InsertDesc(m, x, Tail(q))

RECURSIVE SortDesc(_, _)
SortDesc(m, q) ==
    IF q = << >> THEN << >>
    ELSE InsertDesc(m, q[Len(q)], SortDesc(m, SubSeq(q, 1, Len(q) - 1)))

\* variant: strictly more than the minimum is required
meets_min_total_strict(total, minimum) == total > minimum

\* res.get('total_points', 0) >= min_total_points
meets_min_total(total, minimum) == total >= minimum

\* variant: the first failing symbol ends the loop
next_index_break_on_failure(i, n, failed) == IF failed THEN n + 1 ELSE i + 1

\* the loop goes on with the following symbol, whatever happened to this one
next_index(i, n, failed) == i + 1

LogOf(sym, msgs) == [k \in 1..Len(msgs) |-> [symbol |-> sym, msg |-> msgs[k]]]

Repeat(sym, n) == [k \in 1..n |-> sym]

BatchInit ==
    /\ mode \in Modes
    /\ \E n \in 0..MaxSymbols : symbols = [k \in 1..n |-> k]
    /\ min_total_points \in MinTotalPointsCases
    /\ params \in ParamCases
    /\ bpc = "start"
    /\ idx = 1
    /\ results = << >>
    /\ log = << >>
    /\ fetched = << >>
    /\ fetch_failed = {}
    /\ evaluated = << >>
    /\ cancel_requested = FALSE
    /\ provider_calls = << >>

\* get_bist_stocks() / restrict_symbols; an empty universe returns at once
Begin ==
    /\ bpc = "start"
    /\ bpc' = IF symbols = << >> /\ mode # "batch_analyze" THEN "done" ELSE "loop"
    /\ UNCHANGED <<mode, symbols, min_total_points, params, idx, results, log,
                   fetched, fetch_failed, evaluated, cancel_requested,
                   provider_calls, scoreVars, scanVars, fnVars>>

\* the user asks for the running scan to stop; no loop holds or reads a
\* cancellation flag, so the request changes nothing the loops see
RequestCancel ==
    /\ bpc = "loop"
    /\ ~cancel_requested
    /\ cancel_requested' = TRUE
    /\ UNCHANGED <<mode, symbols, min_total_points, params, bpc, idx, results, log,
                   fetched, fetch_failed, evaluated, provider_calls,
                   scoreVars, scanVars, fnVars>>

\* one iteration of the loop of analyze_stocks_comprehensive
ComprehensiveIter ==
    /\ mode = "analyze_stocks_comprehensive"
    /\ bpc = "loop"
    /\ idx <= Len(symbols)
    /\ \E snap \in Snapshots :
         LET sym == symbols[idx]
             res == analyze_single_stock(snap)
             selected == res.kind = "record"
                         /\ meets_min_total(res.total_points, min_total_points)
         IN /\ results' = IF selected
                          THEN Append(results, Row(sym, res.total_points,
                                                   res.fundamental_points, 0, 1, 0))
                          ELSE results
            /\ log' = log \o LogOf(sym, res.msgs)
                          \o (IF res.kind = "raise"
                              THEN <<[symbol |-> sym, msg |-> MsgScanError]>>
                              ELSE << >>)
            /\ fetched' = fetched \o Repeat(sym, res.n_fetch)
            \* finally: time.sleep(sleep_sec)
            /\ provider_calls' = provider_calls \o res.calls \o <<"sleep">>
            /\ fetch_failed' = IF res.fetch_failed THEN fetch_failed \cup {sym}
                               ELSE fetch_failed
            /\ evaluated' = Append(evaluated,
                                   [symbol |-> sym, kind |-> res.kind,
                                    total_points |-> res.total_points,
                                    ratio_num |-> 0, ratio_den |-> 1,
                                    criteria_met |-> FALSE])
            /\ idx' = next_index(idx, Len(symbols), res.kind # "record")
    /\ UNCHANGED <<mode, symbols, min_total_points, params, bpc,
                   cancel_requested, scoreVars, scanVars, fnVars>>

\* results.sort(...) and return of analyze_stocks_comprehensive
ComprehensiveFinish ==
    /\ mode = "analyze_stocks_comprehensive"
    /\ bpc = "loop"
    /\ idx > Len(symbols)
    /\ results' = SortDesc(mode, results)
    /\ bpc' = "done"
    /\ UNCHANGED <<mode, symbols, min_total_points, params, idx, log,
                   fetched, fetch_failed, evaluated, cancel_requested,
                   provider_calls, scoreVars, scanVars, fnVars>>

\* one iteration of the loop of batch_analyze
BatchAnalyzeIter ==
    /\ mode = "batch_analyze"
    /\ bpc = "loop"
    /\ idx <= Len(symbols)
    /\ \E case \in Analyses :
       /\ case.kw = ScanDefaults
       /\ LET sym == symbols[idx]
             analysis == case.analysis
             selected == analysis.kind = "record"
                         /\ RatioAtLeast(analysis, MinRatioNum, MinRatioDen)
         IN /\ results' = IF selected
                          THEN Append(results, Row(sym, 0, 0, analysis.ratio_num,
                                                   analysis.ratio_den, 0))
                          ELSE results
            /\ log' = log \o LogOf(sym, analysis.msgs)
            /\ fetched' = Append(fetched, sym)
            \* time.sleep(0.1) after the symbol
            /\ provider_calls' = provider_calls \o CallsHistory \o <<"sleep">>
            /\ fetch_failed' = IF analysis.fetch_failed THEN fetch_failed \cup {sym}
                               ELSE fetch_failed
            /\ evaluated' = Append(evaluated,
                                   [symbol |-> sym, kind |-> analysis.kind,
                                    total_points |-> 0,
                                    ratio_num |-> analysis.ratio_num,
                                    ratio_den |-> analysis.ratio_den,
                                    criteria_met |-> FALSE])
            /\ idx' = next_index(idx, Len(symbols), analysis.kind # "record")
    /\ UNCHANGED <<mode, symbols, min_total_points, params, bpc,
                   cancel_requested, scoreVars, scanVars, fnVars>>

\* results.sort(key=volume_ratio, reverse=True) and return of batch_analyze
BatchAnalyzeFinish ==
    /\ mode = "batch_analyze"
    /\ bpc = "loop"
    /\ idx > Len(symbols)
    /\ results' = SortDesc(mode, results)
    /\ bpc' = "done"
    /\ UNCHANGED <<mode, symbols, min_total_points, params, idx, log,
                   fetched, fetch_failed, evaluated, cancel_requested,
                   provider_calls, scoreVars, scanVars, fnVars>>

\* one iteration of the loop of run_analysis
RunAnalysisIter ==
    /\ mode = "run_analysis"
    /\ bpc = "loop"
    /\ idx <= Len(symbols)
    /\ \E case \in Analyses :
       /\ case.kw = params
       /\ LET sym == symbols[idx]
             analysis == case.analysis
             met == analysis.kind = "record" /\ analysis.current_volume > 0
                    /\ criteria_met(params, analysis)
         IN /\ results' = IF met
                          THEN Append(results, Row(sym, 0, 0, analysis.ratio_num,
                                                   analysis.ratio_den, 0))
                          ELSE results
            /\ log' = log \o LogOf(sym, analysis.msgs)
            /\ fetched' = Append(fetched, sym)
            \* time.sleep(0.1) after the symbol
            /\ provider_calls' = provider_calls \o CallsHistory \o <<"sleep">>
            /\ fetch_failed' = IF analysis.fetch_failed THEN fetch_failed \cup {sym}
                               ELSE fetch_failed
            /\ evaluated' = Append(evaluated,
                                   [symbol |-> sym, kind |-> analysis.kind,
                                    total_points |-> 0,
                                    ratio_num |-> analysis.ratio_num,
                                    ratio_den |-> analysis.ratio_den,
                                    criteria_met |-> met])
            /\ idx' = next_index(idx, Len(symbols), analysis.kind # "record")
    /\ UNCHANGED <<mode, symbols, min_total_points, params, bpc,
                   cancel_requested, scoreVars, scanVars, fnVars>>

\* display_results(results, ...) of run_analysis: the rows in collection order
RunAnalysisFinish ==
    /\ mode = "run_analysis"
    /\ bpc = "loop"
    /\ idx > Len(symbols)
    /\ bpc' = "done"
    /\ UNCHANGED <<mode, symbols, min_total_points, params, idx, results, log,
                   fetched, fetch_failed, evaluated, cancel_requested,
                   provider_calls, scoreVars, scanVars, fnVars>>

\* one iteration of the loop of screen_stocks_fundamental (scan_type 'low_pe')
ScreenIter ==
    /\ mode = "screen_stocks_fundamental"
    /\ bpc = "loop"
    /\ idx <= Len(symbols)
    /\ \E snap \in Snapshots :
         LET sym == symbols[idx]
             data == get_fundamental_data(snap)
             passes == data.kind = "record" /\ _passes_fundamental_criteria(data)
         IN /\ results' = IF passes
                          THEN Append(results, Row(sym, 0, 0, 0, 1, data.pe_ratio.v))
                          ELSE results
            /\ log' = log \o LogOf(sym, data.msgs)
            /\ fetched' = Append(fetched, sym)
            \* the loop of screen_stocks_fundamental holds no sleep
            /\ provider_calls' = provider_calls \o data.calls
            /\ fetch_failed' = IF data.fetch_failed THEN fetch_failed \cup {sym}
                               ELSE fetch_failed
            /\ evaluated' = Append(evaluated,
                                   [symbol |-> sym, kind |-> data.kind,
                                    total_points |-> 0,
                                    ratio_num |-> 0, ratio_den |-> 1,
                                    criteria_met |-> passes])
            /\ idx' = next_index(idx, Len(symbols), data.kind # "record")
    /\ UNCHANGED <<mode, symbols, min_total_points, params, bpc,
                   cancel_requested, scoreVars, scanVars, fnVars>>

\* _sort_fundamental_results(...) and return results[:50]
ScreenFinish ==
    /\ mode = "screen_stocks_fundamental"
    /\ bpc = "loop"
    /\ idx > Len(symbols)
    /\ results' = SubSeq(SortDesc(mode, results), 1,
                         IF Len(results) < TopResults THEN Len(results) ELSE TopResults)
    /\ bpc' = "done"
    /\ UNCHANGED <<mode, symbols, min_total_points, params, idx, log,
                   fetched, fetch_failed, evaluated, cancel_requested,
                   provider_calls, scoreVars, scanVars, fnVars>>

Init == ScoreInit /\ BatchInit /\ ScanIdle /\ FnIdle

Next ==
    \/ Begin \/ RequestCancel
    \/ ComprehensiveIter \/ ComprehensiveFinish
    \/ BatchAnalyzeIter \/ BatchAnalyzeFinish
    \/ RunAnalysisIter \/ RunAnalysisFinish
    \/ ScreenIter \/ ScreenFinish

Spec == Init /\ [][Next]_vars

(***************************************************************************)
(* One symbol of a scan: run_analysis calls analyze_stock_volume with the  *)
(* parameters of the selected scan and hands the result to                 *)
(* apply_scan_criteria.  The analysis can be repeated on the same Series;  *)
(* the wall clock advances on its own.                                     *)
(***************************************************************************)
MaxClock == 2

\* the parameter sets of the scans: the sidebar sets the arguments of the
\* selected scan and leaves every other argument at its default
ScanParamCases ==
    { ScanDefaults,
      [ScanDefaults EXCEPT !.min_volume_multiplier = 10],
      [ScanDefaults EXCEPT !.periods_to_check = 1, !.sma_period = 5],
      [ScanDefaults EXCEPT !.scan_type = "ema_golden_cross",
                           !.ema_short = 20, !.ema_long = 100],
      [ScanDefaults EXCEPT !.scan_type = "macd_zero_breakout"],
      [ScanDefaults EXCEPT !.scan_type = "macd_zero_breakout",
                           !.volume_confirmation = FALSE],
      [ScanDefaults EXCEPT !.scan_type = "vwap_support_test"],
      [ScanDefaults EXCEPT !.scan_type = "vwap_support_test",
                           !.vol_confirm_vwap = FALSE],
      [ScanDefaults EXCEPT !.scan_type = "triple_volume_confirmation"],
      [ScanDefaults EXCEPT !.scan_type = "triangle_breakout"],
      [ScanDefaults EXCEPT !.scan_type = "triangle_breakout",
                           !.breakout_direction = "Asagi"],
      [ScanDefaults EXCEPT !.scan_type = "triangle_breakout",
                           !.breakout_direction = "Her Ikisi"],
      [ScanDefaults EXCEPT !.scan_type = "rsi_divergence_breakout",
                           !.rsi_period = 5],
      [ScanDefaults EXCEPT !.scan_type = "bollinger_squeeze_breakout"],
      [ScanDefaults EXCEPT !.scan_type = "bollinger_squeeze_breakout",
                           !.bb_period = 10, !.squeeze_period = 3],
      [ScanDefaults EXCEPT !.scan_type = "fibonacci_harmonic_pattern"] }

ScanSeriesCases ==
    SeriesCases \cup
    { FlatSeries(n) : n \in {1, 4, 12, 30, 45, 60, 110} } \cup
    { FlatAt(n, 7, 3) : n \in {30, 45} } \cup
    { DivergenceSeries } \cup
    { SqueezeSeries } \cup
    TriangleCases \cup
    { MacdSeries(101), MacdSeries(103) } \cup
    { VwapSeries(1, 54), VwapSeries(1, 45), VwapSeries(0, 54) } \cup
    { RisingSeries(n) : n \in {6, 12, 45} }

ScanInit ==
    /\ ScoreInit
    /\ BatchIdle
    /\ FnIdle
    /\ scan_pc = "analyze"
    /\ scan_series \in ScanSeriesCases
    /\ scan_kw \in ScanParamCases
    /\ clock = 0
    /\ scan_analysis = NoAnalysis(<< >>, FALSE)
    /\ scan_again = NoAnalysis(<< >>, FALSE)
    /\ scan_match = FALSE

\* time passes
Tick ==
    /\ clock < MaxClock
    /\ clock' = clock + 1
    /\ UNCHANGED <<scan_pc, scan_series, scan_kw, scan_analysis, scan_again,
                   scan_match, scoreVars, batchVars, fnVars>>

\* analysis = analyzer.analyze_stock_volume(stock, ..., **scan arguments)
AnalyzeStockVolume ==
    /\ scan_pc = "analyze"
    /\ scan_analysis' = analyze_stock_volume(scan_series, scan_kw, clock)
    /\ scan_pc' = "apply"
    /\ UNCHANGED <<scan_series, scan_kw, clock, scan_again, scan_match,
                   scoreVars, batchVars, fnVars>>

\* if analysis and analysis['current_volume'] > 0:
\*     criteria_met, result_row = apply_scan_criteria(analysis, ...)
ApplyScanCriteria ==
    /\ scan_pc = "apply"
    /\ scan_match' = (/\ scan_analysis.kind = "record"
                      /\ scan_analysis.current_volume > 0
                      /\ criteria_met(scan_kw, scan_analysis))
    /\ scan_pc' = "applied"
    /\ UNCHANGED <<scan_series, scan_kw, clock, scan_analysis, scan_again,
                   scoreVars, batchVars, fnVars>>

\* the same scan run once more on the same Series and parameters
AnalyzeAgain ==
    /\ scan_pc = "applied"
    /\ scan_again' = analyze_stock_volume(scan_series, scan_kw, clock)
    /\ scan_pc' = "again"
    /\ UNCHANGED <<scan_series, scan_kw, clock, scan_analysis, scan_match,
                   scoreVars, batchVars, fnVars>>

ScanNext == Tick \/ AnalyzeStockVolume \/ ApplyScanCriteria \/ AnalyzeAgain

SpecScan == ScanInit /\ [][ScanNext]_vars

(***************************************************************************)
(* The helpers of the analysis, each called on its own.  analyze_stock_volume *)
(* hands them at least sma_period bars, the harmonic matcher the closes of    *)
(* at least 20 bars: the bars and prices tried here extend a fixed history.   *)
(***************************************************************************)

\* how many bars, and how many prices, are added to the history
MaxBars == 6
MaxPrices == 10

HistoryBars == [i \in 1..10 |-> Candle(4, 1, 1, 1)]
HistoryPrices == [i \in 1..10 |-> 1]

\* the bars and the prices the history is extended with
BarKinds ==
    { Candle(2, 1, 1, 1), Candle(2, 1, 1, 4), Candle(4, 1, 1, 1),
      Candle(6, 1, 1, 1), Candle(6, 1, 1, 4) }

SwingPrices == {1, 2}

\* prices of the five swing points X, A, B, C, D, and harmonic_tolerance in
\* tenths of a percent (the slider runs from 2.0 to 10.0)
PointPrices == {10, 22, 29, 41, 56, 60}
Tolerances == {20, 50, 100}

\* breakout_volume_increase (the slider runs from 20 to 100)
VolumeIncreases == {20, 40, 100}

\* the closes of a zigzag through the pivots, `leg` bars from one pivot to the
\* next, with five flat bars before the first pivot and after the last one
Zigzag(pivots, leg) ==
    [i \in 1..(11 + (Len(pivots) - 1) * leg) |->
        LET j == i - 6
        IN IF j <= 0 THEN pivots[1]
           ELSE IF j >= (Len(pivots) - 1) * leg THEN pivots[Len(pivots)]
           ELSE LET a == pivots[j \div leg + 1]
                    b == pivots[j \div leg + 2]
                    k == j % leg
                IN IF b >= a THEN a + ((b - a) * k) \div leg
                   ELSE a - ((a - b) * k) \div leg]

\* the Series of a zigzag that comes from 35 and runs through five pivots
ZigzagPrices == {10, 22, 29, 41, 60}
ZigzagSeries(pivots) ==
    LET closes == Zigzag(<<35>> \o pivots, 6)
    IN [i \in 1..Len(closes) |-> Candle(closes[i], 1, 1, 10)]

\* harmonic_pattern_type and fib_lookback_period as the sidebar offers them
PatternTypes == {"Gartley", "Bat", "Butterfly", "Crab", "Otomatik"}
Lookbacks == {20, 35, 41, 50}

\* a row of ticker.history(): the index and the five columns, a cell being a
\* number or NaN
HistoryRow(timestamp, o, h, l, c, v) ==
    [timestamp |-> timestamp, open |-> o, high |-> h, low |-> l, close |-> c,
     volume |-> v]

MaxRows == 3
Timestamps == {1, 2}
RowKinds(timestamp) ==
    { HistoryRow(timestamp, Num(2), Num(3), Num(1), Num(2), Num(5)),
      HistoryRow(timestamp, Num(2), Num(3), Num(1), Num(2), Num(0)),
      HistoryRow(timestamp, Num(2), Num(3), Num(1), NaN, Num(5)),
      HistoryRow(timestamp, Num(-1), Num(3), Num(1), Num(2), Num(5)),
      HistoryRow(timestamp, Num(2), Num(1), Num(3), Num(2), Num(5)),
      HistoryRow(timestamp, Num(2), NaN, Num(1), Num(2), Num(5)),
      HistoryRow(timestamp, Num(2), Num(3), Num(0), Num(2), Num(5)) }

\* what became of the request to the feed
Feeds == {"ok", "raised", "missing columns"}

\* data[column] > 0 on one row: False on NaN
Positive(cell) == IsNum(cell) /\ cell.v > 0

\* data.sort_index(): the rows in ascending index order; rows of the same
\* index in any order (the sort is not stable)
sort_index(data) ==
    { [i \in 1..Len(data) |-> data[p[i]]] : p \in
        { q \in Permutations(1..Len(data)) :
            \A i \in 1..(Len(data) - 1) :
                data[q[i]].timestamp <= data[q[i + 1]].timestamp } }

\* _clean_data: the frames it may return for a non-empty frame
_clean_data(data) ==
    LET not_na(row) == IsNum(row.close) /\ IsNum(row.volume)
        has_volume(row) == Positive(row.volume)
        close_positive(row) == Positive(row.close)
        high_positive(row) == Positive(row.high)
        low_positive(row) == Positive(row.low)
        open_positive(row) == Positive(row.open)
        high_ge_low(row) == IsNum(row.high) /\ IsNum(row.low) /\ row.high.v >= row.low.v
        dropped == SelectSeq(data, not_na)
        traded == SelectSeq(dropped, has_volume)
        priced == SelectSeq(SelectSeq(SelectSeq(SelectSeq(traded, close_positive),
                                                high_positive),
                                      low_positive),
                            open_positive)
    IN sort_index(SelectSeq(priced, high_ge_low))

\* get_stock_data: None, or one of the frames _clean_data may return
get_stock_data(feed, history) ==
    IF feed = "raised" \/ Len(history) = 0 \/ feed = "missing columns"
    THEN {[returned |-> "None", data |-> << >>]}
    ELSE {[returned |-> "DataFrame", data |-> data] : data \in _clean_data(history)}

\* five swing points of the given prices, six bars apart
SwingPointsOf(prices) ==
    [k \in 1..5 |->
        [index |-> 6 * k, price |-> prices[k],
         type |-> IF prices[k] >= prices[IF k = 1 THEN 2 ELSE k - 1]
                  THEN "high" ELSE "low"]]

FnInit ==
    /\ ScoreInit
    /\ BatchIdle
    /\ ScanIdle
    /\ fn_out = NoOutput
    /\ \/ /\ fn_pc = "bars"
          /\ fn_in = [NoInput EXCEPT !.bars = HistoryBars]
       \/ /\ fn_pc = "prices"
          /\ fn_in = [NoInput EXCEPT !.prices = HistoryPrices]
       \/ /\ fn_pc = "data"
          /\ \E X, A, B, C, D \in ZigzagPrices :
                 fn_in = [NoInput EXCEPT !.bars = ZigzagSeries(<<X, A, B, C, D>>)]
       \/ /\ fn_pc = "rows"
          /\ fn_in = NoInput
       \/ /\ fn_pc = "points"
          /\ \E X, A, B, C, D \in PointPrices, tolerance \in Tolerances :
                 fn_in = [NoInput EXCEPT !.points = SwingPointsOf(<<X, A, B, C, D>>),
                                         !.tolerance = tolerance]

\* one more bar of the Series
AddBar ==
    /\ fn_pc = "bars"
    /\ Len(fn_in.bars) < Len(HistoryBars) + MaxBars
    /\ \E bar \in BarKinds : fn_in' = [fn_in EXCEPT !.bars = Append(@, bar)]
    /\ UNCHANGED <<fn_pc, fn_out, scoreVars, batchVars, scanVars>>

\* one more close of the lookback window
AddPrice ==
    /\ fn_pc = "prices"
    /\ Len(fn_in.prices) < Len(HistoryPrices) + MaxPrices
    /\ \E price \in SwingPrices : fn_in' = [fn_in EXCEPT !.prices = Append(@, price)]
    /\ UNCHANGED <<fn_pc, fn_out, scoreVars, batchVars, scanVars>>

\* data['obv'] = self._calculate_obv(data)
CalculateObv ==
    /\ fn_pc = "bars"
    /\ fn_out' = [kind |-> "obv", obv |-> _calculate_obv(fn_in.bars)]
    /\ fn_pc' = "done"
    /\ UNCHANGED <<fn_in, scoreVars, batchVars, scanVars>>

\* self._check_breakout_with_volume(data, current_volume, breakout_volume_increase)
CheckBreakoutWithVolume ==
    /\ fn_pc = "bars"
    /\ \E threshold \in VolumeIncreases :
           /\ fn_in' = [fn_in EXCEPT !.threshold = threshold]
           /\ fn_out' = [kind |-> "breakout",
                         result |-> _check_breakout_with_volume(
                                        fn_in.bars, fn_in.bars[Len(fn_in.bars)].volume,
                                        threshold)]
    /\ fn_pc' = "done"
    /\ UNCHANGED <<scoreVars, batchVars, scanVars>>

\* swing_points = self._find_swing_points(closes, window=5), on the closes of at
\* least 20 bars
FindSwingPoints ==
    /\ fn_pc = "prices"
    /\ Len(fn_in.prices) >= 20
    /\ fn_out' = [kind |-> "swing", points |-> _find_swing_points(fn_in.prices)]
    /\ fn_pc' = "done"
    /\ UNCHANGED <<fn_in, scoreVars, batchVars, scanVars>>

\* self._check_gartley_pattern(points, tolerance)
CheckGartleyPattern ==
    /\ fn_pc = "points"
    /\ fn_out' = [kind |-> "gartley",
                  match |-> _check_gartley_pattern(fn_in.points, fn_in.tolerance)]
    /\ fn_pc' = "done"
    /\ UNCHANGED <<fn_in, scoreVars, batchVars, scanVars>>

\* self._detect_harmonic_pattern(data, harmonic_pattern_type, harmonic_tolerance,
\*                               fib_lookback_period)
DetectHarmonicPattern ==
    /\ fn_pc = "data"
    /\ \E pattern_type \in PatternTypes, tolerance \in Tolerances,
          lookback_period \in Lookbacks :
           /\ fn_in' = [fn_in EXCEPT !.pattern_type = pattern_type,
                                     !.tolerance = tolerance,
                                     !.lookback_period = lookback_period]
           /\ fn_out' = [kind |-> "harmonic",
                         match |-> _detect_harmonic_pattern(
                                       fn_in.bars, pattern_type, tolerance,
                                       lookback_period)]
    /\ fn_pc' = "done"
    /\ UNCHANGED <<scoreVars, batchVars, scanVars>>

\* one more row in what the feed holds for the symbol
AddHistoryRow ==
    /\ fn_pc = "rows"
    /\ Len(fn_in.rows) < MaxRows
    /\ \E timestamp \in Timestamps : \E row \in RowKinds(timestamp) :
           fn_in' = [fn_in EXCEPT !.rows = Append(@, row)]
    /\ UNCHANGED <<fn_pc, fn_out, scoreVars, batchVars, scanVars>>

\* data = self.data_fetcher.get_stock_data(symbol, period, interval)
FetchStockData ==
    /\ fn_pc = "rows"
    /\ \E feed \in Feeds : \E frame \in get_stock_data(feed, fn_in.rows) :
           fn_out' = [kind |-> "data", feed |-> feed, returned |-> frame.returned,
                      data |-> frame.data]
    /\ fn_pc' = "done"
    /\ UNCHANGED <<fn_in, scoreVars, batchVars, scanVars>>

FnNext ==
    \/ AddBar
    \/ AddPrice
    \/ CalculateObv
    \/ CheckBreakoutWithVolume
    \/ FindSwingPoints
    \/ CheckGartleyPattern
    \/ DetectHarmonicPattern
    \/ AddHistoryRow
    \/ FetchStockData

SpecFn == FnInit /\ [][FnNext]_vars

(***************************************************************************)
(* Properties of the scoring engine.                                       *)
(***************************************************************************)

\* C1: whenever analyze_single_stock returns a result, every one of the 10
\* fundamental and 5 technical breakdown entries awards 0, 1 or 2 points,
\* fundamental_points is in 0..20, technical_points in 0..10, and
\* total_points is their sum, in 0..30.
C1_PointsBounded ==
    /\ entry.pts \in {0, 1, 2}
    /\ result = "record" =>
         /\ n_fundamental = 10
         /\ n_technical = 5
         /\ fundamental_points \in 0..20
         /\ technical_points \in 0..10
         /\ total_points = fundamental_points + technical_points
         /\ total_points \in 0..30

C1_Witness ==
    /\ result = "record"
    /\ fundamental_points = 20
    /\ technical_points = 10
    /\ total_points = 30

Tiers == <<"Guclu Sat", "Sat", "Tut", "Al", "Guclu Al">>

Rank(tier) == CHOOSE i \in 1..Len(Tiers) : Tiers[i] = tier

TierOfScore(t) ==
    CASE t \in 20..30 -> "Guclu Al"
      [] t \in 16..19 -> "Al"
      [] t \in 12..15 -> "Tut"
      [] t \in 8..11 -> "Sat"
      [] t \in 0..7 -> "Guclu Sat"

\* C2: the recommendation returned is the tier of total_points alone
\* (>= 20 Strong Buy, 16..19 Buy, 12..15 Hold, 8..11 Sell, below 8 Strong
\* Sell); every score of 0..30 has exactly one tier, and no lower score has a
\* higher tier than the one returned.
C2_RecommendationByTotal ==
    result = "record" =>
        /\ recommendation = TierOfScore(total_points)
        /\ \A t \in 0..30 :
              /\ \E i \in 1..Len(Tiers) : Recommendation(t) = Tiers[i]
              /\ t <= total_points => Rank(Recommendation(t)) <= Rank(recommendation)
              /\ t >= total_points => Rank(Recommendation(t)) >= Rank(recommendation)

C2_Witness ==
    /\ result = "record"
    /\ total_points = 20
    /\ recommendation = "Guclu Al"

\* C3 (as claimed): a snapshot meeting the excellent bound of all 15 criteria
\* scores exactly 30 and is Strong Buy; a snapshot meeting neither bound of
\* any criterion scores exactly 0 and is Strong Sell.
C3_ExcellentAndNoneAsClaimed ==
    result = "record" =>
        /\ all_excellent => (total_points = 30 /\ recommendation = "Guclu Al")
        /\ none_met => (total_points = 0 /\ recommendation = "Guclu Sat")

PEOmitted == info.trailingPE = None /\ info.forwardPE = None
PBOmitted == info.priceToBook = None

\* C4 (as claimed): when the provider omits one fundamentals field, the
\* symbol is still scored, the criterion using the field awards 0 points, and
\* no exception escapes.
C4_OmittedFieldAsClaimed ==
    /\ entry.omitted => entry.pts = 0
    /\ (info.fetch = "ok" /\ ~info.raises /\ (PEOmitted \/ PBOmitted))
         => result \notin {"None", "raise"}

(***************************************************************************)
(* Properties of the batch loops.                                          *)
(***************************************************************************)
Failed(e) == e.kind \in {"None", "raise"}

ResultSymbols == {results[i].symbol : i \in 1..Len(results)}

\* C5: in every batch loop a failure while processing one symbol never
\* aborts the batch: every symbol of the input list is processed, in order,
\* and the call returns normally.
C5_BatchNeverAborts ==
    /\ bpc \in {"start", "loop", "done"}
    /\ bpc = "done" =>
         /\ Len(evaluated) = Len(symbols)
         /\ \A k \in 1..Len(symbols) : evaluated[k].symbol = symbols[k]
    /\ \A k \in 1..Len(evaluated) :
         (Failed(evaluated[k]) /\ k < Len(symbols) /\ bpc = "done")
             => evaluated[k + 1].symbol = symbols[k + 1]

C5_Witness ==
    /\ bpc = "done"
    /\ mode = "analyze_stocks_comprehensive"
    /\ Len(symbols) = 3
    /\ evaluated[1].kind = "raise"
    /\ evaluated[2].kind = "None"
    /\ evaluated[3].kind = "record"
    /\ ResultSymbols = {3}

FetchFailureMsgs == {MsgFetchError, MsgNoData, MsgNoHistory}

\* number of fetch-failure diagnostics printed for a symbol
FailureDiagnostics(sym) ==
    Cardinality({i \in 1..Len(log) :
                    log[i].symbol = sym /\ log[i].msg \in FetchFailureMsgs})

\* C6 (as claimed): when the fetch of exactly k of n symbols fails, results
\* come only from the other n-k symbols and exactly k failure diagnostics are
\* emitted, one per failed symbol and none for the others.
C6_OneDiagnosticPerFailureAsClaimed ==
    bpc = "done" =>
        /\ ResultSymbols \cap fetch_failed = {}
        /\ \A k \in 1..Len(symbols) :
             FailureDiagnostics(symbols[k]) = IF symbols[k] \in fetch_failed THEN 1 ELSE 0

\* the selection condition of each loop, on what the evaluation returned
SelectionMet(e) ==
    /\ e.kind = "record"
    /\ CASE mode = "analyze_stocks_comprehensive" -> e.total_points >= min_total_points
         [] mode = "batch_analyze" -> 2 * e.ratio_num >= 3 * e.ratio_den
         [] OTHER -> e.criteria_met

C8_SortedByTotalThenFundamental ==
    (bpc = "done" /\ mode = "analyze_stocks_comprehensive") =>
        \A i, j \in 1..Len(results) :
            i < j =>
                \/ results[i].total_points > results[j].total_points
                \/ /\ results[i].total_points = results[j].total_points
                   /\ results[i].fundamental_points >= results[j].fundamental_points

C8_Witness ==
    /\ bpc = "done"
    /\ mode = "analyze_stocks_comprehensive"
    /\ Len(results) = 3
    /\ results[1].symbol = 3
    /\ results[2].total_points = results[3].total_points
    /\ results[2].fundamental_points > results[3].fundamental_points
    /\ results[2].symbol > results[3].symbol

\* C9 (as claimed): once cancellation is requested no further symbol is
\* fetched or analyzed.
C9_CancelStopsScanAsClaimed ==
    [][cancel_requested => (fetched' = fetched /\ evaluated' = evaluated)]_vars

ParamsContradictory == params.rsi_min > params.rsi_max

\* C10 (as claimed): a scan started with contradictory parameters
\* (rsi_min > rsi_max) is rejected before any symbol is fetched or analyzed.
C10_InvalidParamsRejectedAsClaimed ==
    (mode = "run_analysis" /\ ParamsContradictory) =>
        (fetched = << >> /\ evaluated = << >>)

IsFetch(call) == call # "sleep"

\* C11 (as claimed): every provider request of a batch is rate-limited on its
\* own: between any two consecutive provider fetches (price history, ticker
\* info, financial statements) there is a delay step.
C11_DelayBetweenFetchesAsClaimed ==
    \A i \in 1..(Len(provider_calls) - 1) :
        ~(IsFetch(provider_calls[i]) /\ IsFetch(provider_calls[i + 1]))

(***************************************************************************)
(* Properties of the scanners.                                             *)
(***************************************************************************)

\* C12 (as claimed): analyze_stock_volume evaluated twice on the same Series
\* with the same parameters returns the same result: every field of the two
\* records is equal.
C12_RepeatedAnalysisIdenticalAsClaimed ==
    scan_pc = "again" => scan_again = scan_analysis

\* the bars the code asks for before it evaluates a sub-criterion: the guard
\* of its group in analyze_stock_volume
Lookback(kw, name) ==
    CASE name = "volume_progression_check" -> kw.periods_to_check + 1
      [] name \in {"golden_cross", "golden_cross_recent"} ->
             Max(kw.ema_short, kw.ema_long) + 5
      [] name \in {"macd_zero_breakout", "macd_zero_breakout_recent",
                   "macd_histogram_positive"} ->
             Max(kw.macd_fast, kw.macd_slow) + kw.macd_signal + 5
      [] name = "sideways_movement" -> kw.sideways_days + 5
      [] name \in {"vwap_support_test", "vwap_breakout_recent", "rising_bottoms"} ->
             kw.vwap_period + kw.bottom_lookback
      [] name \in {"triple_volume_confirmed", "rsi_in_range", "obv_at_peak"} ->
             Max(kw.volume_avg_period, Max(kw.rsi_period, kw.obv_period))
      [] name \in {"triangle_detected", "volume_declined", "breakout_confirmed",
                   "breakout_direction_correct"} -> kw.triangle_period
      [] name \in {"rsi_divergence_detected", "rsi_oversold", "resistance_broken",
                   "volume_confirmed_breakout"} -> kw.divergence_period
      [] name \in {"bb_squeeze_detected", "upper_band_broken",
                   "volume_confirmed_squeeze", "consecutive_upper_closes"} ->
             kw.bb_period
      [] OTHER -> kw.fib_lookback_period

\* C13 (as claimed): analyze_stock_volume never raises, whatever the Series
\* (missing, empty, shorter than any lookback): it returns no result, or a
\* result in which every sub-criterion whose lookback the Series does not
\* satisfy is false, so that the scanner reports no match.
C13_ShortSeriesAllFalseAsClaimed ==
    (scan_pc # "analyze" /\ scan_analysis.kind = "record") =>
        \A name \in SubCriteria :
            Len(scan_series.bars) < Lookback(scan_kw, name) => ~scan_analysis[name]

\* C14 (as claimed): insufficient data is per indicator: a Series too short
\* for one indicator (fewer bars than sma_period, say) leaves only that
\* indicator out, and every sub-criterion whose own lookback the Series
\* satisfies is still computed and reported in a result.
C14_InsufficientPerIndicatorAsClaimed ==
    (scan_pc # "analyze" /\ scan_series.fetch = "ok") =>
        ((\E name \in SubCriteria :
              Len(scan_series.bars) >= Lookback(scan_kw, name))
            => scan_analysis.kind = "record")

ScanApplied == scan_pc \in {"applied", "again"}

StrictlyRising(q) == \A i \in 1..(Len(q) - 1) : q[i] < q[i + 1]

\* the 30-bar Series of volumes 1, 2, ..., 29, 100: strictly increasing, the
\* 10-bar volume SMA 32.5 below 100 / 1.5
RampExample == OkSeries(Const(30, 100), 1, RampVolume(100))

IsFlat(series) ==
    /\ series.fetch = "ok"
    /\ series.bars # << >>
    /\ \A i \in 1..Len(series.bars) :
           /\ series.bars[i] = series.bars[1]
           /\ series.bars[i].open = series.bars[i].close
           /\ series.bars[i].high = series.bars[i].close
           /\ series.bars[i].low = series.bars[i].close

\* C16: on a Series of any length in which every bar has the same
\* open/high/low/close price and the same volume, none of the nine scanners
\* reports a match.
C16_FlatSeriesNeverMatches ==
    (ScanApplied /\ IsFlat(scan_series)) => ~scan_match

\* a flat Series long enough for the MACD guards, scanned without the volume
\* confirmation
C16_Witness ==
    /\ ScanApplied
    /\ IsFlat(scan_series)
    /\ Len(scan_series.bars) >= 45
    /\ scan_kw.scan_type = "macd_zero_breakout"
    /\ ~scan_kw.volume_confirmation
    /\ scan_analysis.kind = "record"
    /\ scan_analysis.sideways_movement

\* the RSI series: the RSI of every bar over the `period` price changes that
\* end there, 50 where it is undefined (the first _calculate_rsi of the class)
rsi_series(prices, period) ==
    [i \in 1..Len(prices) |->
        LET rsi == _calculate_rsi(HeadN(prices, i), period)
        IN IF IsNaN(rsi) THEN Ratio(50, 1) ELSE rsi]

\* the divergence of the lows against the RSI series
DivergenceOfSeries(data, kw) ==
    _detect_rsi_divergence(data, rsi_series(Column(data, "close"), kw.rsi_period),
                           kw.divergence_period, kw.min_divergence_strength)

\* C17: the divergence sub-criterion holds exactly when, over the last
\* divergence_period bars, the latest local minimum of price is lower than the
\* previous one while the latest local minimum of the RSI series is higher
\* than the previous one, and the divergence strength is at least
\* min_divergence_strength.
C17_DivergenceAsClaimed ==
    (scan_pc # "analyze" /\ scan_analysis.kind = "record") =>
        (scan_analysis.rsi_divergence_detected
            <=> DivergenceOfSeries(scan_series.bars, scan_kw))

\* the conditions of the VWAP scan on the bars themselves: a low of the last
\* 10 bars below VWAP by the tolerance, a close of the last 3 bars above VWAP,
\* the last two bottoms rising, the volume ratio when it is to be confirmed
VwapGuard(data, kw) ==
    /\ Len(data) >= kw.vwap_period + kw.bottom_lookback
    /\ data[Len(data)].volume > 0

VwapDipped(data, kw) ==
    LET vwap == _calculate_vwap(data, kw.vwap_period)
    IN \E i \in 1..Len(data) :
           /\ i > Len(data) - 10
           /\ PriceBelowVwap(data[i].low, vwap[i], kw.support_tolerance)

VwapCloseAbove(data, kw, bars) ==
    LET vwap == _calculate_vwap(data, kw.vwap_period)
    IN \E i \in 1..Len(data) :
           /\ i > Len(data) - bars
           /\ PriceAboveVwap(data[i].close, vwap[i])

RisingPair(data, kw) ==
    LET first == Len(data) - (kw.bottom_lookback + 5) + 1
        bottoms == {i \in (first + 1)..(Len(data) - 1) :
                       /\ data[i].low < data[i - 1].low
                       /\ data[i].low < data[i + 1].low}
    IN \E i, j \in bottoms :
           /\ i < j
           /\ \A k \in bottoms : k <= i \/ k = j
           /\ data[j].low > data[i].low

VwapVolumeOk(data, kw) ==
    kw.vol_confirm_vwap =>
        LET volumes == Column(data, "volume")
        IN volumes[Len(data)] * kw.sma_period * Tenth
               >= SumSeq(TailN(volumes, kw.sma_period)) * kw.vol_multiplier_vwap

ScanVwap == ScanApplied /\ scan_kw.scan_type = "vwap_support_test"

\* C18 as stated: the VWAP Support Test + Rising Bottoms scanner reports a
\* match if and only if some bar of the last 10 has low below VWAP by the
\* tolerance, and some close in the last 3 bars is above VWAP, and the two most
\* recent swing lows form a rising pair, and (when volume confirmation is
\* enabled) the volume ratio is at least the multiplier.
C18_VwapMatchAsClaimed ==
    ScanVwap =>
        (scan_match <=>
            /\ scan_series.fetch = "ok"
            /\ VwapGuard(scan_series.bars, scan_kw)
            /\ VwapDipped(scan_series.bars, scan_kw)
            /\ VwapCloseAbove(scan_series.bars, scan_kw, 3)
            /\ RisingPair(scan_series.bars, scan_kw)
            /\ VwapVolumeOk(scan_series.bars, scan_kw))

\* C18 amended: on a Series of at least vwap_period + bottom_lookback bars, the
\* scanner reports a match if and only if some bar of the last 10 has low below
\* VWAP by the tolerance, and the latest close is above the latest VWAP, and the
\* two most recent swing lows form a rising pair, and (when volume confirmation
\* is enabled) the volume ratio is at least the multiplier.
C18_VwapMatch ==
    ScanVwap =>
        (scan_match <=>
            /\ scan_series.fetch = "ok"
            /\ VwapGuard(scan_series.bars, scan_kw)
            /\ VwapDipped(scan_series.bars, scan_kw)
            /\ VwapCloseAbove(scan_series.bars, scan_kw, 1)
            /\ RisingPair(scan_series.bars, scan_kw)
            /\ VwapVolumeOk(scan_series.bars, scan_kw))

\* the scan matched a Series that dipped below VWAP and closed back above it
C18_Witness ==
    /\ ScanVwap
    /\ scan_match
    /\ VwapDipped(scan_series.bars, scan_kw)
    /\ scan_kw.vol_confirm_vwap

\* the close-price range of the sideways_days bars before the latest bar, as a
\* percentage of their minimum, is within sideways_threshold
SidewaysBefore(close, kw) ==
    /\ Len(close) >= kw.sideways_days + 5
    /\ LET before == SubSeq(close, Len(close) - kw.sideways_days, Len(close) - 1)
       IN (MaxSeq(before) - MinSeq(before)) * 100 * Tenth
              <= kw.sideways_threshold * MinSeq(before)

MacdVolumeOk(data, kw) ==
    kw.volume_confirmation =>
        LET volumes == Column(data, "volume")
        IN volumes[Len(data)] * kw.sma_period * 10
               >= SumSeq(TailN(volumes, kw.sma_period)) * 12

\* C19: the MACD Zero-Line Breakout scanner reports a match if and only if the
\* MACD line crossed from <= 0 to > 0 within the last 5 bars, and the latest
\* histogram is > 0, and the close-price range over the sideways_days bars
\* preceding the latest bar is <= sideways_threshold percent, and (when volume
\* confirmation is enabled) the volume ratio is >= 1.2.
C19_MacdMatchAsClaimed ==
    (ScanApplied /\ scan_kw.scan_type = "macd_zero_breakout") =>
        (scan_match <=>
            /\ scan_analysis.kind = "record"
            /\ scan_analysis.current_volume > 0
            /\ scan_analysis.macd_zero_breakout_recent
            /\ scan_analysis.macd_histogram_positive
            /\ SidewaysBefore(Column(scan_series.bars, "close"), scan_kw)
            /\ MacdVolumeOk(scan_series.bars, scan_kw))

\* the conditions of the triangle scan on the bars themselves
Converged(data, kw) ==
    LET first == data[Len(data) - kw.triangle_period + 1]
        latest == data[Len(data)]
        range_start == first.high - first.low
        range_end == latest.high - latest.low
    IN /\ range_start > 0
       /\ (range_start - range_end) * 100 * Tenth
              >= kw.convergence_threshold * range_start

VolumeDeclined(data, kw) ==
    /\ Len(data) >= kw.volume_decline_period
    /\ LET half == kw.volume_decline_period \div 2
           from == Len(data) - kw.volume_decline_period
           early == SumSeq([i \in 1..half |-> data[from + i].volume])
           late == SumSeq([i \in 1..half |-> data[Len(data) - half + i].volume])
       IN /\ early > 0
          /\ (early - late) * 100 >= kw.volume_decline_threshold * early

BrokeOut(data, kw, direction) ==
    LET n == Len(data)
        before == (n - 4)..(n - 1)
        volume_sum == SumSeq([i \in 1..4 |-> data[n - 5 + i].volume])
    IN /\ volume_sum > 0
       /\ (data[n].volume * 4 - volume_sum) * 100
              >= kw.breakout_volume_increase * volume_sum
       /\ IF direction = "up"
          THEN \A i \in before : data[n].close > data[i].high
          ELSE \A i \in before : data[n].close < data[i].low

ScanTriangle == ScanApplied /\ scan_kw.scan_type = "triangle_breakout"

\* C20: the Triangle Breakout scanner reports a match if and only if the
\* convergence percent over triangle_period is at least its threshold, and the
\* volume decline percent over volume_decline_period is at least its
\* threshold, and a volume-backed price breakout is confirmed whose direction
\* is the required one (up for 'Yukari', down for 'Asagi', either for
\* 'Her Ikisi').
C20_TriangleMatch ==
    ScanTriangle =>
        (scan_match <=>
            /\ scan_series.fetch = "ok"
            /\ Len(scan_series.bars) >= scan_kw.triangle_period
            /\ Converged(scan_series.bars, scan_kw)
            /\ VolumeDeclined(scan_series.bars, scan_kw)
            /\ \/ /\ scan_kw.breakout_direction \in {"Yukari", "Her Ikisi"}
                  /\ BrokeOut(scan_series.bars, scan_kw, "up")
               \/ /\ scan_kw.breakout_direction \in {"Asagi", "Her Ikisi"}
                  /\ BrokeOut(scan_series.bars, scan_kw, "down"))

\* a downward breakout matched by the scan for 'Asagi'
C20_Witness ==
    /\ ScanTriangle
    /\ scan_kw.breakout_direction = "Asagi"
    /\ scan_match
    /\ BrokeOut(scan_series.bars, scan_kw, "down")

(***************************************************************************)
(* Properties of the indicators.                                           *)
(***************************************************************************)

\* the latest band width against the squeeze_percentile quantile of the band
\* widths of the last squeeze_period * 22 bars
SqueezeOfWindow(data, kw) ==
    LET close == Column(data, "close")
        squeeze_days == kw.squeeze_period * 22
        widths == [k \in 1..squeeze_days |->
                      BandWidth(close, kw.bb_period, kw.bb_std_dev,
                                Len(data) - squeeze_days + k).n]
    IN widths[squeeze_days] * 100 <= Quantile100(widths, kw.squeeze_percentile)

\* the Series has squeeze_period * 22 bars with defined bands
SqueezeWindowDefined(data, kw) ==
    Len(data) >= kw.squeeze_period * 22 + kw.bb_period - 1

\* C21: the Bollinger Squeeze sub-criterion holds exactly when the latest
\* normalized band width is <= the squeeze_percentile quantile of the band
\* widths over the trailing squeeze window (squeeze_period x 22 bars), for
\* every Series that has at least that many bars with defined bands.
C21_SqueezeAsClaimed ==
    (/\ scan_pc # "analyze"
     /\ scan_analysis.kind = "record"
     /\ SqueezeWindowDefined(scan_series.bars, scan_kw)) =>
        (scan_analysis.bb_squeeze_detected
            <=> SqueezeOfWindow(scan_series.bars, scan_kw))

ScanAnalyzed == scan_pc # "analyze" /\ scan_analysis.kind = "record"

\* a fraction that is a number between lo and hi
Within(x, lo, hi) ==
    /\ x.t = "num"
    /\ RatioGE(x, Ratio(lo, 1))
    /\ RatioGE(Ratio(hi, 1), x)

\* C22: the RSI value computed for any closes series is always within
\* [0, 100]; on a rising closes series longer than the period it is 100.
C22_RsiWithinBoundsAsClaimed ==
    ScanAnalyzed =>
        /\ Within(scan_analysis.rsi, 0, 100)
        /\ (/\ StrictlyRising(Column(scan_series.bars, "close"))
            /\ Len(scan_series.bars) > scan_kw.rsi_period)
               => Within(scan_analysis.rsi, 100, 100)

\* the RSI is undefined: fewer than period + 1 closes, or no gain and no loss
\* over the last `period` price changes
RsiUndefined(close, period) ==
    \/ Len(close) < period + 1
    \/ \A i \in (Len(close) - period + 1)..Len(close) : close[i] = close[i - 1]

\* C23: whenever the RSI is undefined (fewer than period + 1 closes, or both
\* average gain and average loss are 0), the RSI value used by the scanners is
\* 50, never an undefined value.
C23_UndefinedRsiIsFiftyAsClaimed ==
    (ScanAnalyzed /\ RsiUndefined(Column(scan_series.bars, "close"), scan_kw.rsi_period))
        => Within(scan_analysis.rsi, 50, 50)

\* the triple-confirmation block of the analysis is computed
TripleComputed ==
    /\ ScanAnalyzed
    /\ Len(scan_series.bars) >= Max(scan_kw.volume_avg_period,
                                    Max(scan_kw.rsi_period, scan_kw.obv_period))

\* C24: every ratio of the analysis whose denominator can be zero (here the OBV
\* max-min over the percentile window) yields a defined value when the
\* denominator is zero; no NaN or infinite value is fed into a threshold
\* comparison.
C24_NoUndefinedRatioAsClaimed ==
    TripleComputed =>
        obv_percentile(_calculate_obv(scan_series.bars), scan_kw.obv_period).t = "num"

(***************************************************************************)
(* Properties of the helpers.                                              *)
(***************************************************************************)

SwingsFound == fn_pc = "done" /\ fn_out.kind = "swing"

\* position i is reported with the given type
ReportedAs(points, i, type) ==
    \E k \in 1..Len(points) : points[k].index = i /\ points[k].type = type

\* the price at i is strictly above (below) every other price of its window
StrictHigh(prices, i, w) ==
    \A j \in (i - w)..(i + w) : j = i \/ prices[i] > prices[j]

StrictLow(prices, i, w) ==
    \A j \in (i - w)..(i + w) : j = i \/ prices[i] < prices[j]

\* C25: swing-point detection with window w returns points in increasing index
\* order; index i is reported as a high (low) if and only if its price is
\* strictly greater (strictly less) than the price of every other bar in
\* [i-w, i+w]; and no index within w bars of either end of the series is ever
\* reported.
C25_SwingPointsAsClaimed ==
    SwingsFound =>
        LET prices == fn_in.prices
            points == fn_out.points
            w == swing_window
        IN /\ \A k \in 1..(Len(points) - 1) : points[k].index < points[k + 1].index
           /\ \A k \in 1..Len(points) :
                  points[k].index \in (w + 1)..(Len(prices) - w)
           /\ \A i \in (w + 1)..(Len(prices) - w) :
                  /\ ReportedAs(points, i, "high") <=> StrictHigh(prices, i, w)
                  /\ ReportedAs(points, i, "low") <=> StrictLow(prices, i, w)

GartleyChecked == fn_pc = "done" /\ fn_out.kind = "gartley"

\* the distance between two prices
Leg(points, a, b) ==
    IF points[a].price >= points[b].price
    THEN points[a].price - points[b].price
    ELSE points[b].price - points[a].price

\* leg / base lies within the tolerance of the target (in thousandths; the
\* tolerance in tenths of a percent)
WithinTolerance(leg, base, target, tolerance) ==
    /\ base > 0
    /\ (target - tolerance) * base <= 1000 * leg
    /\ 1000 * leg <= (target + tolerance) * base

\* AB/XA, BC/AB, CD/BC and AD/XA of the five points against a target each
AB_XA(points, target, tolerance) ==
    WithinTolerance(Leg(points, 3, 2), Leg(points, 2, 1), target, tolerance)
BC_AB(points, target, tolerance) ==
    WithinTolerance(Leg(points, 4, 3), Leg(points, 3, 2), target, tolerance)
CD_BC(points, target, tolerance) ==
    WithinTolerance(Leg(points, 5, 4), Leg(points, 4, 3), target, tolerance)
AD_XA(points, target, tolerance) ==
    WithinTolerance(Leg(points, 5, 2), Leg(points, 2, 1), target, tolerance)

\* C26 as stated: five swing points whose ratios are exactly AB/XA = 0.618,
\* BC/AB = 0.382, CD/BC = 1.272, AD/XA = 0.786 match the Gartley template; and
\* for any tolerance, a ratio beyond the tolerance from its target makes the
\* template not match.
C26_GartleyAsClaimed ==
    GartleyChecked =>
        LET points == fn_in.points
            tolerance == fn_in.tolerance
        IN /\ (/\ AB_XA(points, 618, 0)
               /\ BC_AB(points, 382, 0)
               /\ CD_BC(points, 1272, 0)
               /\ AD_XA(points, 786, 0)) => fn_out.match
           /\ fn_out.match =>
                  /\ AB_XA(points, 618, tolerance)
                  /\ BC_AB(points, 382, tolerance)
                  /\ CD_BC(points, 1272, tolerance)
                  /\ AD_XA(points, 786, tolerance)

\* C26 amended: five swing points match the Gartley template at a tolerance
\* if and only if AB/XA is within the tolerance of 0.618, BC/AB within the
\* tolerance of 0.382 or of 0.886, CD/BC within the tolerance of 1.272 or of
\* 1.618, and AD/XA within the tolerance of 0.786; a ratio beyond the
\* tolerance from each of its targets makes the template not match.
C26_GartleyMatch ==
    GartleyChecked =>
        LET points == fn_in.points
            tolerance == fn_in.tolerance
        IN fn_out.match <=>
              /\ AB_XA(points, 618, tolerance)
              /\ BC_AB(points, 382, tolerance) \/ BC_AB(points, 886, tolerance)
              /\ CD_BC(points, 1272, tolerance) \/ CD_BC(points, 1618, tolerance)
              /\ AD_XA(points, 786, tolerance)

\* five points matched with BC/AB near 0.886
C26_Witness ==
    /\ GartleyChecked
    /\ fn_out.match
    /\ BC_AB(fn_in.points, 886, fn_in.tolerance)
    /\ ~BC_AB(fn_in.points, 382, fn_in.tolerance)

BreakoutChecked == fn_pc = "done" /\ fn_out.kind = "breakout"

\* the bars before the latest one in the window of 5
Preceding(bars) == (Len(bars) - 4)..(Len(bars) - 1)

\* the latest close is above every high (below every low) of the preceding bars
AboveEveryHigh(bars) ==
    \A k \in Preceding(bars) : bars[Len(bars)].close > bars[k].high
BelowEveryLow(bars) ==
    \A k \in Preceding(bars) : bars[Len(bars)].close < bars[k].low

\* four times the mean volume of the preceding bars
PrecedingVolume(bars) ==
    bars[Len(bars) - 4].volume + bars[Len(bars) - 3].volume
        + bars[Len(bars) - 2].volume + bars[Len(bars) - 1].volume

\* the latest volume exceeds the mean of the preceding bars by the percentage
VolumeUpBy(bars, percent) ==
    /\ PrecedingVolume(bars) > 0
    /\ 100 * (4 * bars[Len(bars)].volume - PrecedingVolume(bars))
           >= percent * PrecedingVolume(bars)

\* C28: the breakout check compares the latest close with the highest high and
\* the lowest low of the 4 bars before the latest one: the direction is up
\* exactly when the close is above that high, down exactly when it is below
\* that low, none otherwise and never both; the breakout is confirmed exactly
\* when there is a direction and the latest volume exceeds the mean volume of
\* those same 4 bars by the required percentage.
C28_BreakoutCheck ==
    BreakoutChecked =>
        LET bars == fn_in.bars
            breakout == fn_out.result
        IN /\ breakout.direction = "up" <=> AboveEveryHigh(bars)
           /\ breakout.direction = "down" <=> BelowEveryLow(bars)
           /\ breakout.direction \in {"up", "down", "None"}
           /\ ~(AboveEveryHigh(bars) /\ BelowEveryLow(bars))
           /\ breakout.confirmed <=>
                  /\ breakout.direction # "None"
                  /\ VolumeUpBy(bars, fn_in.threshold)

\* a confirmed breakout upwards on a Series that grew beyond its history
C28_Witness ==
    /\ BreakoutChecked
    /\ fn_out.result.confirmed
    /\ fn_out.result.direction = "up"
    /\ Len(fn_in.bars) > Len(HistoryBars)

ObvCalculated == fn_pc = "done" /\ fn_out.kind = "obv"

StrictlyRisingCloses(bars) ==
    \A i \in 2..Len(bars) : bars[i].close > bars[i - 1].close
StrictlyFallingCloses(bars) ==
    \A i \in 2..Len(bars) : bars[i].close < bars[i - 1].close

\* the bars from position `from` on
BarsFrom(bars, from) == SubSeq(bars, from, Len(bars))

\* C29: OBV starts at the first bar's volume; on every later bar it adds the
\* bar's volume when the close rose, subtracts it when the close fell and
\* stays when the close is unchanged; so it never decreases over a stretch
\* of strictly rising closes and never increases over a stretch of
\* strictly falling closes.
C29_ObvRunningTotal ==
    ObvCalculated =>
        LET bars == fn_in.bars
            obv == fn_out.obv
        IN /\ Len(obv) = Len(bars)
           /\ obv[1] = bars[1].volume
           /\ \A i \in 2..Len(bars) :
                  /\ bars[i].close > bars[i - 1].close
                         => obv[i] = obv[i - 1] + bars[i].volume
                  /\ bars[i].close < bars[i - 1].close
                         => obv[i] = obv[i - 1] - bars[i].volume
                  /\ bars[i].close = bars[i - 1].close => obv[i] = obv[i - 1]
           /\ \A from \in 1..Len(bars) :
                  /\ StrictlyRisingCloses(BarsFrom(bars, from))
                         => \A i \in (from + 1)..Len(bars) : obv[i] >= obv[i - 1]
                  /\ StrictlyFallingCloses(BarsFrom(bars, from))
                         => \A i \in (from + 1)..Len(bars) : obv[i] <= obv[i - 1]

\* a Series whose closes rose, fell and stayed, ending on two rises
C29_Witness ==
    /\ ObvCalculated
    /\ LET bars == fn_in.bars
       IN /\ \E i \in 2..Len(bars) : bars[i].close < bars[i - 1].close
          /\ \E i \in 2..Len(bars) : bars[i].close = bars[i - 1].close
          /\ Len(bars) >= 3
          /\ StrictlyRisingCloses(BarsFrom(bars, Len(bars) - 2))
          /\ fn_out.obv[Len(bars)] > fn_out.obv[Len(bars) - 2]

HarmonicDetected == fn_pc = "done" /\ fn_out.kind = "harmonic"

\* the closes of the lookback window, oldest first
LookbackCloses(bars, lookback_period) ==
    [i \in 1..lookback_period |-> bars[Len(bars) - lookback_period + i].close]

\* the five most recent of the swing points
LastFive(swing_points) ==
    [k \in 1..5 |-> swing_points[Len(swing_points) - 5 + k]]

\* the named template accepts the points as X, A, B, C, D
TemplateMatches(name, points, tolerance) ==
    CASE name = "Gartley" -> _check_gartley_pattern(points, tolerance)
      [] name = "Bat" -> _check_bat_pattern(points, tolerance)
      [] name = "Butterfly" -> _check_butterfly_pattern(points, tolerance)
      [] name = "Crab" -> _check_crab_pattern(points, tolerance)

\* C27: the harmonic matcher answers no match (and always answers) when the
\* lookback window holds fewer than 5 swing points; with 5 or more it judges
\* the 5 most recent ones, oldest first, as X, A, B, C, D; and in 'Otomatik'
\* mode it reports a match exactly when at least one of Gartley, Bat,
\* Butterfly and Crab accepts them.
C27_HarmonicMatcher ==
    HarmonicDetected =>
        /\ fn_out.match \in BOOLEAN
        /\ Len(fn_in.bars) >= fn_in.lookback_period =>
               LET swing_points ==
                       _find_swing_points(LookbackCloses(fn_in.bars,
                                                         fn_in.lookback_period))
                   tolerance == fn_in.tolerance
               IN /\ Len(swing_points) < 5 => ~fn_out.match
                  /\ Len(swing_points) >= 5 =>
                         LET points == LastFive(swing_points)
                         IN /\ \A k \in 1..4 : points[k].index < points[k + 1].index
                            /\ fn_in.pattern_type # "Otomatik" =>
                                   (fn_out.match <=>
                                       TemplateMatches(fn_in.pattern_type, points,
                                                       tolerance))
                            /\ fn_in.pattern_type = "Otomatik" =>
                                   (fn_out.match <=>
                                       \E name \in {"Gartley", "Bat", "Butterfly", "Crab"} :
                                           TemplateMatches(name, points, tolerance))

\* an 'Otomatik' match on a window of more than 5 swing points whose last five
\* are not a Gartley
C27_Witness ==
    /\ HarmonicDetected
    /\ fn_in.pattern_type = "Otomatik"
    /\ fn_out.match
    /\ Len(fn_in.bars) >= fn_in.lookback_period
    /\ LET swing_points ==
               _find_swing_points(LookbackCloses(fn_in.bars, fn_in.lookback_period))
       IN /\ Len(swing_points) > 5
          /\ ~_check_gartley_pattern(LastFive(swing_points), fn_in.tolerance)

DataReturned ==
    /\ fn_pc = "done"
    /\ fn_out.kind = "data"
    /\ fn_out.returned = "DataFrame"
    /\ Len(fn_out.data) > 0

\* every bar of the Series has positive prices and volume and high >= low
BarsValid(data) ==
    \A i \in 1..Len(data) :
        /\ \A column \in {"open", "high", "low", "close", "volume"} :
               IsNum(data[i][column]) /\ data[i][column].v > 0
        /\ data[i].high.v >= data[i].low.v

\* C30 as stated: every non-empty Series that get_stock_data returns has
\* open, high, low, close and volume above 0 and high >= low on every bar, and
\* strictly increasing timestamps.
C30_SeriesInvariantsAsClaimed ==
    DataReturned =>
        /\ BarsValid(fn_out.data)
        /\ \A i \in 1..(Len(fn_out.data) - 1) :
               fn_out.data[i].timestamp < fn_out.data[i + 1].timestamp

====
